---------------------------- MODULE Spec2Model ----------------------------
(***************************************************************************)
(* A model of the two-tier response cache of the Statigo framework         *)
(* (package cache): the Entry record, the durable Storage, the Manager     *)
(* with its in-memory index, and the bulk warmer.                          *)
(*                                                                         *)
(* Conventions.                                                            *)
(*  - A Go string or []byte is a sequence of one-character strings.        *)
(*  - Time is counted in whole seconds (time.Time.Unix()); 24*time.Hour is *)
(*    TwentyFourHours seconds.                                             *)
(*  - The memory index (sync.Map) maps a cache key to a pointer: `index`   *)
(*    maps a key to an object id, `heap` maps an object id to the Entry    *)
(*    fields.  Id 0 is the nil pointer.                                    *)
(*  - SHA-256 is taken to be collision free: an ETag is modelled by the    *)
(*    byte string that is hashed.                                          *)
(***************************************************************************)
EXTENDS Integers, Sequences, FiniteSets, TLC

VARIABLES
    clock,      \* time.Now(), in seconds
    index,      \* Manager.entries: cache key -> object id (0: no entry)
    heap,       \* object id -> Entry fields, or NoEntry when not allocated
    brFile,     \* Storage: file name -> <<content of <name>.br>>, or Absent
    htmlFile,   \* Storage: file name -> <<content of <name>.html>>, or Absent
    pending,    \* the `go writeFunc()` goroutines of Set that have not run yet
    passes,     \* the `go m.eagerRevalidate(...)` goroutines that have not run yet
    router,     \* Manager.router: TRUE once SetRouter bound a handler
    threads,    \* the callers inside Get or set: where each one is and what
                \* it holds; a caller not inside a call is Idle
    warm,       \* the bulk warmer: its catalog, where its workers and their
                \* per-language goroutines are, its counters
    reval,      \* the eagerRevalidate goroutine that runs: the entries it was
                \* handed, where its per-entry goroutines are, its counters
    rv,         \* the Revalidator: its ticker, its done channel, where its
                \* goroutine is
    mu,         \* Storage.mu, the sync.RWMutex: who holds it and who waits
    ret,        \* the last step taken: the call and what it returned
    hist        \* history kept for the properties of a specification: what
                \* the state was before the last step, or the calls before it

vars == <<clock, index, heap, brFile, htmlFile, pending, passes, router,
          threads, warm, reval, rv, mu, ret, hist>>

memVars == <<index, heap>>
diskVars == <<brFile, htmlFile>>
bgVars == <<pending, passes, router>>

-----------------------------------------------------------------------------
(* Bounds of the model *)

MaxSec == 1
MaxDays == 1
MaxObj == 4
MaxGen == 3
MaxPasses == 1
MaxSets == 2
MaxPayload == 3
MaxRvDays == 2

(* Program constants *)

TwentyFourHours == 86400
maxWorkers == 10
StatusOK == 200
semaphoreCapacity == 10
SecondsPerHour == 3600

-----------------------------------------------------------------------------
(* Strings *)

\* A file is <<>> when it does not exist and <<bytes>> when it does; a read
\* returns the same, <<>> standing for its error.
Absent == <<>>
\* An object id that is not allocated
NoEntry == [Generation |-> 0]
\* Storage.mu of a new Storage: held by nobody
Unlocked == [writer |-> {}, readers |-> {}, waiting |-> {}]

NoCall == [op |-> "none"]

Digit == <<"0", "1", "2", "3", "4", "5", "6", "7", "8", "9">>

RECURSIVE Itoa(_)
\* fmt.Sprintf("%d", n) for n >= 0
Itoa(n) ==
    IF n < 10 THEN <<Digit[n + 1]>>
    ELSE Itoa(n \div 10) \o <<Digit[(n % 10) + 1]>>

HasPrefix(s, p) ==
    /\ Len(p) <= Len(s)
    /\ SubSeq(s, 1, Len(p)) = p

RECURSIVE ReplaceAllFirstOnly(_, _, _)
\* strings.Replace(s, old, new, 1): only the first occurrence
ReplaceAllFirstOnly(s, old, new) ==
    IF Len(s) < Len(old) THEN s
    ELSE IF HasPrefix(s, old)
         THEN new \o SubSeq(s, Len(old) + 1, Len(s))
         ELSE <<Head(s)>> \o ReplaceAllFirstOnly(Tail(s), old, new)

RECURSIVE ReplaceAll(_, _, _)
\* strings.ReplaceAll(s, old, new) for a non-empty old: the non-overlapping
\* occurrences of old, found from left to right, are replaced by new.
ReplaceAll(s, old, new) ==
    IF Len(s) < Len(old) THEN s
    ELSE IF HasPrefix(s, old)
         THEN new \o ReplaceAll(SubSeq(s, Len(old) + 1, Len(s)), old, new)
         ELSE <<Head(s)>> \o ReplaceAll(Tail(s), old, new)

Contains(s, sub) ==
    \E i \in 1..(Len(s) - Len(sub) + 1) : SubSeq(s, i, i + Len(sub) - 1) = sub

TrimPrefix(s, p) ==
    IF HasPrefix(s, p) THEN SubSeq(s, Len(p) + 1, Len(s)) ELSE s

-----------------------------------------------------------------------------
(* Cache keys *)

\* The orders in which `range pathParams` can visit the map's keys.
RangeOrders(m) ==
    {o \in [1..Cardinality(DOMAIN m) -> DOMAIN m] :
        \A i, j \in DOMAIN o : i # j => o[i] # o[j]}

RECURSIVE SubstituteInOrder(_, _, _)
\* The loop body of GetCacheKey run over the params in the order o.
SubstituteInOrder(key, m, o) ==
    IF o = <<>> THEN key
    ELSE SubstituteInOrder(
            ReplaceAll(key, <<"{">> \o Head(o) \o <<"}">>, m[Head(o)]),
            m, Tail(o))

\* GetCacheKey(canonical, lang, pathParams): every key the call may return, one
\* for each order in which Go may iterate over the map.
GetCacheKeys(canonical, lang, pathParams) ==
    {SubstituteInOrder(canonical, pathParams, o) \o <<":">> \o lang :
        o \in RangeOrders(pathParams)}

NilParams == <<>>

\* GetCacheKey(canonical, lang, nil)
GetCacheKey(canonical, lang) ==
    CHOOSE k \in GetCacheKeys(canonical, lang, NilParams) : TRUE

getCacheFileName(cacheKey) ==
    TrimPrefix(
        ReplaceAll(ReplaceAll(cacheKey, <<"/">>, <<"_">>), <<":">>, <<"_">>),
        <<"_">>)

-----------------------------------------------------------------------------
(* Entry *)

generateETag(content, generation, renderedAt) ==
    content \o Itoa(generation) \o <<":">> \o Itoa(renderedAt)

NewEntry(content, strategy, requestPath, now) ==
    [Content     |-> content,
     RenderedAt  |-> now,
     Strategy    |-> strategy,
     ETag        |-> generateETag(content, 1, now),
     RequestPath |-> requestPath,
     Generation  |-> 1,
     stale       |-> FALSE]

IsStale(e) == e.stale

MarkStale(e) == [e EXCEPT !.stale = TRUE]

MarkFresh(e) == [e EXCEPT !.stale = FALSE]

UpdateSameGeneration(e, content, requestPath, now) ==
    MarkFresh(
        [e EXCEPT !.Content = content,
                  !.RenderedAt = now,
                  !.ETag = generateETag(content, e.Generation, now),
                  !.RequestPath = IF requestPath # <<>> THEN requestPath ELSE @])

Update(e, content, requestPath, now) ==
    MarkFresh(
        [e EXCEPT !.Content = content,
                  !.RenderedAt = now,
                  !.Generation = e.Generation + 1,
                  !.ETag = generateETag(content, e.Generation + 1, now),
                  !.RequestPath = IF requestPath # <<>> THEN requestPath ELSE @])

ShouldRevalidateNoImmutableCheck(e, now) ==
    IF IsStale(e) THEN TRUE
    ELSE IF e.Strategy = "incremental"
         THEN now - e.RenderedAt > TwentyFourHours
         ELSE FALSE

ShouldRevalidate(e, now) ==
    IF e.Strategy = "immutable" THEN FALSE
    ELSE IF IsStale(e) THEN TRUE
    ELSE IF e.Strategy = "incremental"
         THEN now - e.RenderedAt > TwentyFourHours
         ELSE FALSE

-----------------------------------------------------------------------------
(* Inputs *)

Payloads == {<<"a">>, <<"b">>}
RequestPaths == {<<>>, <<"/", "p">>}
Strategies == {"immutable", "static", "incremental"}
Canonicals == {<<"/", "a">>, <<"/", "b">>}
Languages == {<<"e">>}

KeyA == GetCacheKey(<<"/", "a">>, <<"e">>)
KeyB == GetCacheKey(<<"/", "b">>, <<"e">>)
Keys == {GetCacheKey(c, l) : c \in Canonicals, l \in Languages}
KeyNumber(cacheKey) == IF cacheKey = KeyA THEN 1 ELSE 2
FileNames == {getCacheFileName(k) : k \in Keys}
Ids == 1..MaxObj

-----------------------------------------------------------------------------
(* Compression.  The codec is the brotli library; of its output the model   *)
(* keeps that it is a frame around the payload, which the reader recognises *)
(* and which bytes that were never compressed do not carry.                 *)

BrotliFrame == "br"
DecompressError == <<"error">>

\* A writer whose last block was never flushed (no writer.Close())
CompressBrotliUnclosed(content) ==
    <<BrotliFrame>> \o SubSeq(content, 1, Len(content) - 1)

CompressBrotli(content) == <<BrotliFrame>> \o content

DecompressBrotli(compressed) ==
    IF compressed # <<>> /\ Head(compressed) = BrotliFrame
    THEN Tail(compressed)
    ELSE DecompressError

GetDecompressedContent(e) == DecompressBrotli(e.Content)

-----------------------------------------------------------------------------
(* Storage *)

\* Storage.Write: outcome "ok"; "brfail" (the first os.WriteFile fails and
\* nothing is written); "htmlfail" (the .br file is written, the second
\* os.WriteFile fails).
WriteOutcomes == {"ok", "brfail", "htmlfail"}

StorageWriteBr(br, cacheKey, compressedContent, outcome) ==
    IF outcome = "brfail" THEN br
    ELSE [br EXCEPT ![getCacheFileName(cacheKey)] = <<compressedContent>>]

StorageWriteHtml(html, cacheKey, uncompressedContent, outcome) ==
    IF outcome = "ok"
    THEN [html EXCEPT ![getCacheFileName(cacheKey)] = <<uncompressedContent>>]
    ELSE html

StorageExistsHtml(cacheKey) == htmlFile[getCacheFileName(cacheKey)] # Absent

\* Storage.Exists: os.Stat of the .br file
StorageExists(cacheKey) == brFile[getCacheFileName(cacheKey)] # Absent

\* A ReadBrotli that hands back the file's bytes even when the read failed
StorageReadBrotliUnchecked(cacheKey, rfail) ==
    brFile[getCacheFileName(cacheKey)]

\* Storage.ReadBrotli: <<the file's bytes>>, or Absent for an error (no such
\* file, or a read that fails).
StorageReadBrotli(cacheKey, rfail) ==
    IF rfail THEN Absent ELSE brFile[getCacheFileName(cacheKey)]

StorageReadHTML(cacheKey, rfail) ==
    IF rfail THEN Absent ELSE htmlFile[getCacheFileName(cacheKey)]

StorageDelete(f, cacheKey) == [f EXCEPT ![getCacheFileName(cacheKey)] = Absent]

-----------------------------------------------------------------------------
(* The heap of Entry objects *)

Live(h) == {id \in Ids : h[id] # NoEntry}

\* The address of a newly allocated Entry.  Which free address the allocator
\* hands out is its own business: here the one numbered like the key when it is
\* free, the lowest free one otherwise, so that one history has one layout.
NewId(h, cacheKey) ==
    LET free == Ids \ Live(h) IN
    IF KeyNumber(cacheKey) \in free THEN KeyNumber(cacheKey)
    ELSE CHOOSE id \in free : \A j \in free : id <= j

Resident(idx) == {idx[k] : k \in DOMAIN idx} \ {0}

\* Garbage collection: an Entry that nothing refers to any more is gone.
Collect(h, roots) == [id \in Ids |-> IF id \in roots THEN h[id] ELSE NoEntry]

\* The callers, and what a caller holds between two steps of a call: the
\* arguments, the *Entry it works on (e) and the value it read for
\* Generation++ (gen).
Threads == {"t1", "t2"}

Idle == [pc |-> "idle", key |-> <<>>, html |-> <<>>, br |-> <<>>,
         strategy |-> "", path |-> <<>>, sync |-> FALSE, e |-> 0, gen |-> 0]

AllIdle == [t \in Threads |-> Idle]

Held(th) == {th[t].e : t \in Threads} \ {0}

\* What keeps an Entry alive: the index, a revalidation pass, a caller.
Roots(idx, ps, th) == Resident(idx) \cup UNION ps \cup Held(th)

EmptyIndex == [k \in Keys |-> 0]
EmptyHeap == [id \in Ids |-> NoEntry]
EmptyDisk == [f \in FileNames |-> Absent]

-----------------------------------------------------------------------------
(* Manager: the operations, each run from call to return *)

loadFromDiskNoStrategy(compressedContent, now) ==
    [Content     |-> compressedContent,
     RenderedAt  |-> now,
     Strategy    |-> "",
     ETag        |-> generateETag(compressedContent, 1, now),
     RequestPath |-> <<>>,
     Generation  |-> 1,
     stale       |-> FALSE]

\* loadFromDisk: the Entry built from the bytes of the .br file
loadFromDisk(compressedContent, now) ==
    [Content     |-> compressedContent,
     RenderedAt  |-> now,
     Strategy    |-> "static",
     ETag        |-> generateETag(compressedContent, 1, now),
     RequestPath |-> <<>>,
     Generation  |-> 1,
     stale       |-> FALSE]

\* The Entry the index holds for a key, NoEntry when it holds none
EntryOf(cacheKey) ==
    IF index[cacheKey] = 0 THEN NoEntry ELSE heap[index[cacheKey]]

Get(cacheKey, rfail) ==
    /\ IF index[cacheKey] # 0
       THEN /\ ret' = [op |-> "Get", key |-> cacheKey, found |-> TRUE,
                       id |-> index[cacheKey], io |-> <<>>]
            /\ UNCHANGED memVars
       ELSE IF StorageExists(cacheKey)
       THEN LET read == StorageReadBrotli(cacheKey, rfail) IN
            IF read = Absent
            THEN /\ ret' = [op |-> "Get", key |-> cacheKey, found |-> FALSE,
                            id |-> 0, io |-> <<"Exists", "ReadBrotli">>]
                 /\ UNCHANGED memVars
            ELSE /\ Live(heap) # Ids
                 /\ heap' = [heap EXCEPT ![NewId(heap, cacheKey)] = loadFromDisk(read[1], clock)]
                 /\ index' = [index EXCEPT ![cacheKey] = NewId(heap, cacheKey)]
                 /\ ret' = [op |-> "Get", key |-> cacheKey, found |-> TRUE,
                            id |-> NewId(heap, cacheKey), io |-> <<"Exists", "ReadBrotli">>]
       ELSE /\ ret' = [op |-> "Get", key |-> cacheKey, found |-> FALSE,
                       id |-> 0, io |-> <<"Exists">>]
            /\ UNCHANGED memVars
    /\ UNCHANGED <<clock, diskVars, bgVars, threads>>

\* The mutant of CompressOrFallBack: nothing kept when compression failed
CompressOrDrop(uncompressedContent, cfail) ==
    IF cfail THEN <<>> ELSE CompressBrotli(uncompressedContent)

\* The bytes set keeps in memory and writes to the .br file: the compressed
\* content, or the content itself when CompressBrotli returned an error.
CompressOrFallBack(uncompressedContent, cfail) ==
    IF cfail THEN uncompressedContent ELSE CompressBrotli(uncompressedContent)

\* The memory half of set: update the Entry the index holds, or create one.
setMemory(cacheKey, compressedContent, strategy, requestPath) ==
    IF index[cacheKey] # 0
    THEN /\ heap[index[cacheKey]].Generation < MaxGen
         /\ heap' = [heap EXCEPT ![index[cacheKey]] =
                        Update(@, compressedContent, requestPath, clock)]
         /\ index' = index
    ELSE /\ Live(heap) # Ids
         /\ heap' = [heap EXCEPT ![NewId(heap, cacheKey)] =
                        NewEntry(compressedContent, strategy, requestPath, clock)]
         /\ index' = [index EXCEPT ![cacheKey] = NewId(heap, cacheKey)]

\* Set: the disk write is left to a goroutine.
Set(cacheKey, uncompressedContent, strategy, requestPath, cfail) ==
    LET compressedContent == CompressOrFallBack(uncompressedContent, cfail) IN
    /\ setMemory(cacheKey, compressedContent, strategy, requestPath)
    /\ pending' = pending \cup {[key |-> cacheKey, br |-> compressedContent,
                                 html |-> uncompressedContent]}
    /\ ret' = [op |-> "Set", key |-> cacheKey, err |-> FALSE]
    /\ UNCHANGED <<clock, diskVars, passes, router, threads>>

\* A SetSync that gives up on a failed disk write: no update of the Entry, and
\* the error returned
SetSyncFailing(cacheKey, uncompressedContent, strategy, requestPath, cfail, outcome) ==
    LET compressedContent == CompressOrFallBack(uncompressedContent, cfail) IN
    /\ IF outcome = "ok"
       THEN setMemory(cacheKey, compressedContent, strategy, requestPath)
       ELSE UNCHANGED memVars
    /\ brFile' = StorageWriteBr(brFile, cacheKey, compressedContent, outcome)
    /\ htmlFile' = StorageWriteHtml(htmlFile, cacheKey, uncompressedContent, outcome)
    /\ ret' = [op |-> "SetSync", key |-> cacheKey, err |-> outcome # "ok"]
    /\ UNCHANGED <<clock, bgVars, threads>>

\* The mutant of SetSync: the disk write left to a goroutine, as in Set
SetSyncDeferred(cacheKey, uncompressedContent, strategy, requestPath, cfail, outcome) ==
    LET compressedContent == CompressOrFallBack(uncompressedContent, cfail) IN
    /\ setMemory(cacheKey, compressedContent, strategy, requestPath)
    /\ pending' = pending \cup {[key |-> cacheKey, br |-> compressedContent,
                                 html |-> uncompressedContent]}
    /\ ret' = [op |-> "SetSync", key |-> cacheKey, err |-> FALSE]
    /\ UNCHANGED <<clock, diskVars, passes, router, threads>>

\* SetSync: the disk write is done before the call returns.
SetSync(cacheKey, uncompressedContent, strategy, requestPath, cfail, outcome) ==
    LET compressedContent == CompressOrFallBack(uncompressedContent, cfail) IN
    /\ setMemory(cacheKey, compressedContent, strategy, requestPath)
    /\ brFile' = StorageWriteBr(brFile, cacheKey, compressedContent, outcome)
    /\ htmlFile' = StorageWriteHtml(htmlFile, cacheKey, uncompressedContent, outcome)
    /\ ret' = [op |-> "SetSync", key |-> cacheKey, err |-> FALSE]
    /\ UNCHANGED <<clock, bgVars, threads>>

\* The goroutine `go writeFunc()` of an earlier Set runs.
writeFunc(w, outcome) ==
    /\ w \in pending
    /\ pending' = pending \ {w}
    /\ brFile' = StorageWriteBr(brFile, w.key, w.br, outcome)
    /\ htmlFile' = StorageWriteHtml(htmlFile, w.key, w.html, outcome)
    /\ ret' = [op |-> "writeFunc", key |-> w.key]
    /\ UNCHANGED <<clock, memVars, passes, router, threads>>

Delete(cacheKey) ==
    /\ index' = [index EXCEPT ![cacheKey] = 0]
    /\ heap' = Collect(heap, Roots(index', passes, threads))
    /\ brFile' = StorageDelete(brFile, cacheKey)
    /\ htmlFile' = StorageDelete(htmlFile, cacheKey)
    /\ ret' = [op |-> "Delete", key |-> cacheKey, err |-> FALSE]
    /\ UNCHANGED <<clock, bgVars, threads>>

\* The entries Manager.MarkStale(strategy, .) marks, as object ids
StaleMatchIgnoringImmutable(strategy) ==
    {id \in Resident(index) : heap[id].Strategy = strategy}

StaleMatch(strategy) ==
    {id \in Resident(index) :
        /\ heap[id].Strategy # "immutable"
        /\ heap[id].Strategy = strategy}

\* The entries Manager.MarkAllStale(.) marks
StaleMatchAll ==
    {id \in Resident(index) : heap[id].Strategy # "immutable"}

\* The mutant of markEntries: a count of the entries that were fresh
markEntriesCountingFresh(name, strategy, matched, eager) ==
    /\ heap' = [id \in Ids |-> IF id \in matched THEN MarkStale(heap[id])
                                ELSE heap[id]]
    /\ passes' = IF eager /\ matched # {} THEN passes \cup {matched} ELSE passes
    /\ Cardinality(passes') <= MaxPasses
    /\ ret' = [op |-> name, strategy |-> strategy, eager |-> eager,
               count |-> Cardinality({id \in matched : ~heap[id].stale})]
    /\ UNCHANGED <<clock, index, diskVars, pending, router, threads>>

\* The common body: mark, count, hand the marked entries to a goroutine.
markEntries(name, strategy, matched, eager) ==
    /\ heap' = [id \in Ids |-> IF id \in matched THEN MarkStale(heap[id])
                                ELSE heap[id]]
    /\ passes' = IF eager /\ matched # {} THEN passes \cup {matched} ELSE passes
    /\ Cardinality(passes') <= MaxPasses
    /\ ret' = [op |-> name, strategy |-> strategy, eager |-> eager,
               count |-> Cardinality(matched)]
    /\ UNCHANGED <<clock, index, diskVars, pending, router, threads>>

ManagerMarkStale(strategy, eager) ==
    markEntries("MarkStale", strategy, StaleMatch(strategy), eager)

ManagerMarkAllStale(eager) ==
    markEntries("MarkAllStale", "", StaleMatchAll, eager)

SetRouter ==
    /\ router' = TRUE
    /\ ret' = [op |-> "SetRouter"]
    /\ UNCHANGED <<clock, memVars, diskVars, pending, passes, threads>>

\* The goroutine `go m.eagerRevalidate(staleEntries)` runs: without a router it
\* returns at once; with one it sends a GET for every non-empty RequestPath.
\* It stores nothing itself.
eagerRevalidate(pass) ==
    /\ pass \in passes
    /\ passes' = passes \ {pass}
    /\ heap' = Collect(heap, Roots(index, passes', threads))
    /\ ret' = [op |-> "eagerRevalidate",
               requests |-> IF router
                            THEN {heap[id].RequestPath : id \in pass} \ {<<>>}
                            ELSE {}]
    /\ UNCHANGED <<clock, index, diskVars, pending, router, threads>>

\* The process ends and a new one starts on the same cache directory
\* (NewManager): the memory index and the goroutines are gone, the files stay.
\* With keep, only the Manager is replaced and the pending writes still run.
Restart(keep) ==
    /\ index' = EmptyIndex
    /\ heap' = EmptyHeap
    /\ passes' = {}
    /\ router' = FALSE
    /\ pending' = IF keep THEN pending ELSE {}
    /\ threads' = AllIdle
    /\ ret' = [op |-> "Restart"]
    /\ UNCHANGED <<clock, diskVars>>

\* Time passes.
Tick(t) ==
    /\ t > clock
    /\ clock' = t
    /\ ret' = [op |-> "Tick"]
    /\ UNCHANGED <<memVars, diskVars, bgVars, threads>>

-----------------------------------------------------------------------------
(* Manager: Get and set step by step.  A step is one access to the shared   *)
(* memory (the sync.Map, a field of an Entry) or to the disk; the callers'  *)
(* steps interleave.  ret keeps the call that returned last.                *)

At(t, label) == threads[t].pc = label

Goto(t, label) == [threads EXCEPT ![t].pc = label]

Returned(t) == [threads EXCEPT ![t] = Idle]

\* m.entries.Load(cacheKey): the pointer, 0 when the map has none
entriesLoadMiss(cacheKey) == 0

entriesLoad(cacheKey) == index[cacheKey]

\* A caller enters set: the content is compressed before anything is shared.
CallSet(t, cacheKey, uncompressedContent, strategy, requestPath, sync, cfail) ==
    /\ At(t, "idle")
    /\ threads' = [threads EXCEPT ![t] =
            [Idle EXCEPT !.pc = "set.Load", !.key = cacheKey,
                         !.html = uncompressedContent,
                         !.br = CompressOrFallBack(uncompressedContent, cfail),
                         !.strategy = strategy, !.path = requestPath,
                         !.sync = sync]]
    /\ UNCHANGED <<clock, memVars, diskVars, bgVars, ret>>

\* existingValue, exists := m.entries.Load(cacheKey)
SetLoad(t) ==
    /\ At(t, "set.Load")
    /\ threads' = IF entriesLoad(threads[t].key) # 0
                  THEN [threads EXCEPT ![t].pc = "Update.Content",
                                       ![t].e = entriesLoad(threads[t].key)]
                  ELSE Goto(t, "set.Store")
    /\ UNCHANGED <<clock, memVars, diskVars, bgVars, ret>>

\* e.Content = content
UpdateContent(t) ==
    /\ At(t, "Update.Content")
    /\ heap' = [heap EXCEPT ![threads[t].e].Content = threads[t].br]
    /\ threads' = Goto(t, "Update.RenderedAt")
    /\ UNCHANGED <<clock, index, diskVars, bgVars, ret>>

\* e.RenderedAt = time.Now()
UpdateRenderedAt(t) ==
    /\ At(t, "Update.RenderedAt")
    /\ heap' = [heap EXCEPT ![threads[t].e].RenderedAt = clock]
    /\ threads' = Goto(t, "Update.Generation")
    /\ UNCHANGED <<clock, index, diskVars, bgVars, ret>>

\* e.Generation++ : the read
UpdateGenerationRead(t) ==
    /\ At(t, "Update.Generation")
    /\ threads' = [threads EXCEPT ![t].pc = "Update.Generation.write",
                                  ![t].gen = heap[threads[t].e].Generation]
    /\ UNCHANGED <<clock, memVars, diskVars, bgVars, ret>>

\* e.Generation++ : the write
UpdateGenerationWrite(t) ==
    /\ At(t, "Update.Generation.write")
    /\ heap' = [heap EXCEPT ![threads[t].e].Generation = threads[t].gen + 1]
    /\ threads' = [threads EXCEPT ![t].pc = "Update.ETag", ![t].gen = 0]
    /\ UNCHANGED <<clock, index, diskVars, bgVars, ret>>

\* e.ETag = generateETag(content, e.Generation, e.RenderedAt)
UpdateETag(t) ==
    /\ At(t, "Update.ETag")
    /\ heap' = [heap EXCEPT ![threads[t].e].ETag =
                    generateETag(threads[t].br, heap[threads[t].e].Generation,
                                 heap[threads[t].e].RenderedAt)]
    /\ threads' = Goto(t, "Update.RequestPath")
    /\ UNCHANGED <<clock, index, diskVars, bgVars, ret>>

\* if requestPath != "" { e.RequestPath = requestPath }
UpdateRequestPath(t) ==
    /\ At(t, "Update.RequestPath")
    /\ heap' = IF threads[t].path # <<>>
               THEN [heap EXCEPT ![threads[t].e].RequestPath = threads[t].path]
               ELSE heap
    /\ threads' = Goto(t, "Update.MarkFresh")
    /\ UNCHANGED <<clock, index, diskVars, bgVars, ret>>

\* e.MarkFresh(), the last use of existingEntry
UpdateMarkFresh(t) ==
    /\ At(t, "Update.MarkFresh")
    /\ threads' = [threads EXCEPT ![t].pc = "set.write", ![t].e = 0]
    /\ heap' = Collect([heap EXCEPT ![threads[t].e] = MarkFresh(@)],
                       Roots(index, passes, threads'))
    /\ UNCHANGED <<clock, index, diskVars, bgVars, ret>>

\* entry := NewEntry(...); m.entries.Store(cacheKey, entry)
SetStore(t) ==
    LET cacheKey == threads[t].key
        id == NewId(heap, cacheKey) IN
    /\ At(t, "set.Store")
    /\ Live(heap) # Ids
    /\ index' = [index EXCEPT ![cacheKey] = id]
    /\ threads' = Goto(t, "set.write")
    /\ heap' = Collect([heap EXCEPT ![id] =
                            NewEntry(threads[t].br, threads[t].strategy,
                                     threads[t].path, clock)],
                       Roots(index', passes, threads'))
    /\ UNCHANGED <<clock, diskVars, bgVars, ret>>

\* if sync { writeFunc() } else { go writeFunc() }; return nil
SetWrite(t, outcome) ==
    LET cacheKey == threads[t].key IN
    /\ At(t, "set.write")
    /\ IF threads[t].sync
       THEN /\ brFile' = StorageWriteBr(brFile, cacheKey, threads[t].br, outcome)
            /\ htmlFile' = StorageWriteHtml(htmlFile, cacheKey, threads[t].html,
                                            outcome)
            /\ pending' = pending
       ELSE /\ pending' = pending \cup {[key |-> cacheKey, br |-> threads[t].br,
                                         html |-> threads[t].html]}
            /\ UNCHANGED diskVars
    /\ threads' = Returned(t)
    /\ ret' = [op |-> IF threads[t].sync THEN "SetSync" ELSE "Set",
               key |-> cacheKey, err |-> FALSE]
    /\ UNCHANGED <<clock, memVars, passes, router>>

CallGet(t, cacheKey) ==
    /\ At(t, "idle")
    /\ threads' = [threads EXCEPT ![t] =
            [Idle EXCEPT !.pc = "Get.Load", !.key = cacheKey]]
    /\ UNCHANGED <<clock, memVars, diskVars, bgVars, ret>>

\* if entry, ok := m.entries.Load(cacheKey); ok { return entry, true }
GetLoad(t) ==
    LET cacheKey == threads[t].key IN
    /\ At(t, "Get.Load")
    /\ IF entriesLoad(cacheKey) # 0
       THEN /\ threads' = Returned(t)
            /\ ret' = [op |-> "Get", key |-> cacheKey, found |-> TRUE,
                       id |-> entriesLoad(cacheKey), io |-> <<>>]
       ELSE /\ threads' = Goto(t, "Get.Exists")
            /\ ret' = ret
    /\ UNCHANGED <<clock, memVars, diskVars, bgVars>>

\* if m.storage.Exists(cacheKey) { ... } return nil, false
GetExists(t) ==
    LET cacheKey == threads[t].key IN
    /\ At(t, "Get.Exists")
    /\ IF StorageExists(cacheKey)
       THEN /\ threads' = Goto(t, "Get.loadFromDisk")
            /\ ret' = ret
       ELSE /\ threads' = Returned(t)
            /\ ret' = [op |-> "Get", key |-> cacheKey, found |-> FALSE,
                       id |-> 0, io |-> <<"Exists">>]
    /\ UNCHANGED <<clock, memVars, diskVars, bgVars>>

\* entry, err := m.loadFromDisk(cacheKey); if err != nil { return nil, false }
GetLoadFromDisk(t, rfail) ==
    LET cacheKey == threads[t].key
        read == StorageReadBrotli(cacheKey, rfail)
        id == NewId(heap, cacheKey) IN
    /\ At(t, "Get.loadFromDisk")
    /\ IF read = Absent
       THEN /\ threads' = Returned(t)
            /\ ret' = [op |-> "Get", key |-> cacheKey, found |-> FALSE,
                       id |-> 0, io |-> <<"Exists", "ReadBrotli">>]
            /\ heap' = heap
       ELSE /\ Live(heap) # Ids
            /\ heap' = [heap EXCEPT ![id] = loadFromDisk(read[1], clock)]
            /\ threads' = [threads EXCEPT ![t].pc = "Get.Store", ![t].e = id]
            /\ ret' = ret
    /\ UNCHANGED <<clock, index, diskVars, bgVars>>

\* m.entries.Store(cacheKey, entry); return entry, true
GetStore(t) ==
    LET cacheKey == threads[t].key IN
    /\ At(t, "Get.Store")
    /\ index' = [index EXCEPT ![cacheKey] = threads[t].e]
    /\ threads' = Returned(t)
    /\ heap' = Collect(heap, Roots(index', passes, threads'))
    /\ ret' = [op |-> "Get", key |-> cacheKey, found |-> TRUE,
               id |-> threads[t].e, io |-> <<"Exists", "ReadBrotli">>]
    /\ UNCHANGED <<clock, diskVars, bgVars>>

-----------------------------------------------------------------------------
(* The bulk warmer (Bootstrap, RebuildAll, RebuildByStrategy).  The routes  *)
(* of the catalog are put on a channel that holds them all; a worker takes  *)
(* the next route, filters it, and for a route it warms starts one          *)
(* goroutine per language; the goroutine looks the key up (unless forced),  *)
(* renders the page through the router and stores it with SetSync.  The     *)
(* goroutines of one run work on keys of their own; the Get and the SetSync *)
(* of a goroutine are one step each.                                        *)

hasParamsNever(canonical) == FALSE

\* hasParams := strings.Contains(route.Canonical, "{")
hasParams(canonical) == Contains(canonical, <<"{">>)

\* makeCacheRequest: <<the body>> for a response with status 200, an error
\* (Absent) for any other status.  The page the router renders for a path is
\* taken to be the path itself.
makeCacheRequest(path, status) ==
    IF status # StatusOK THEN Absent ELSE <<path>>

\* The goroutines of a route: one per configured language
TasksOf(i) == {p \in DOMAIN warm.task : p[1] = i}

\* for route := range routeChan { ... }: a free worker receives the next route.
\* A route the filter rejects and a dynamic route are dropped (continue); a
\* route with a parameter adds a count of 0; any other goes to cacheStaticRoute.
WorkerReceive ==
    LET i == warm.next
        route == warm.catalog[i] IN
    /\ warm # NoCall
    /\ i <= Len(warm.catalog)
    /\ Cardinality({j \in DOMAIN warm.route : warm.route[j] = "running"})
            < maxWorkers
    /\ warm' =
        IF \/ warm.filter # "" /\ route.Strategy # warm.filter
           \/ route.Strategy = "dynamic"
        THEN [warm EXCEPT !.next = i + 1, !.route[i] = "dropped"]
        ELSE IF hasParams(route.Canonical)
        THEN [warm EXCEPT !.next = i + 1, !.route[i] = "done"]
        ELSE [warm EXCEPT !.next = i + 1, !.route[i] = "running",
                          !.task = [p \in DOMAIN @ |->
                                        IF p[1] = i THEN "Get" ELSE @[p]]]
    /\ UNCHANGED <<clock, memVars, diskVars, bgVars, threads, reval, rv, mu, ret>>

\* cacheKey := GetCacheKey(route.Canonical, lang, nil)
TaskKey(i, lang) == GetCacheKey(warm.catalog[i].Canonical, lang)

\* A goroutine that takes every key for cached, forced or not
TaskGetAlwaysSkips(i, lang) ==
    /\ warm # NoCall
    /\ <<i, lang>> \in DOMAIN warm.task
    /\ warm.task[<<i, lang>>] = "Get"
    /\ warm' = [warm EXCEPT !.task[<<i, lang>>] = "returned"]
    /\ UNCHANGED <<clock, memVars, diskVars, bgVars, threads, reval, rv, mu, ret>>

\* A goroutine that renders without looking the key up
TaskGetNeverSkips(i, lang) ==
    /\ warm # NoCall
    /\ <<i, lang>> \in DOMAIN warm.task
    /\ warm.task[<<i, lang>>] = "Get"
    /\ warm' = [warm EXCEPT !.task[<<i, lang>>] = "render"]
    /\ UNCHANGED <<clock, memVars, diskVars, bgVars, threads, reval, rv, mu, ret>>

\* if !config.ForceRebuild { if _, found := m.Get(cacheKey); found { return } }
TaskGet(i, lang) ==
    /\ warm # NoCall
    /\ <<i, lang>> \in DOMAIN warm.task
    /\ warm.task[<<i, lang>>] = "Get"
    /\ IF warm.force
       THEN /\ warm' = [warm EXCEPT !.task[<<i, lang>>] = "render"]
            /\ UNCHANGED <<clock, memVars, diskVars, bgVars, threads, reval, rv, mu, ret>>
       ELSE /\ Get(TaskKey(i, lang), FALSE)
            /\ warm' = [warm EXCEPT !.task[<<i, lang>>] =
                            IF ret'.found THEN "returned" ELSE "render"]
            /\ UNCHANGED <<reval, rv, mu>>

\* A TaskRender whose failure ends the other goroutines of the route as well
TaskRenderAborting(i, lang, status) ==
    LET path == warm.catalog[i].Paths[lang]
        response == makeCacheRequest(path, status) IN
    /\ warm # NoCall
    /\ <<i, lang>> \in DOMAIN warm.task
    /\ warm.task[<<i, lang>>] = "render"
    /\ warm' =
        IF path = <<>> \/ response = Absent
        THEN [warm EXCEPT !.task = [p \in DOMAIN @ |->
                                        IF p[1] = i THEN "returned" ELSE @[p]]]
        ELSE [warm EXCEPT !.task[<<i, lang>>] = "SetSync",
                          !.content[<<i, lang>>] = response[1]]
    /\ UNCHANGED <<clock, memVars, diskVars, bgVars, threads, reval, rv, mu, ret>>

\* path := route.Paths[lang]; content, err := m.makeCacheRequest(...)
TaskRender(i, lang, status) ==
    LET path == warm.catalog[i].Paths[lang]
        response == makeCacheRequest(path, status) IN
    /\ warm # NoCall
    /\ <<i, lang>> \in DOMAIN warm.task
    /\ warm.task[<<i, lang>>] = "render"
    /\ warm' =
        IF path = <<>> \/ response = Absent
        THEN [warm EXCEPT !.task[<<i, lang>>] = "returned"]
        ELSE [warm EXCEPT !.task[<<i, lang>>] = "SetSync",
                          !.content[<<i, lang>>] = response[1]]
    /\ UNCHANGED <<clock, memVars, diskVars, bgVars, threads, reval, rv, mu, ret>>

\* m.SetSync(cacheKey, content, route.Strategy, path); count.Add(1)
TaskSetSync(i, lang, outcome) ==
    /\ warm # NoCall
    /\ <<i, lang>> \in DOMAIN warm.task
    /\ warm.task[<<i, lang>>] = "SetSync"
    /\ SetSync(TaskKey(i, lang), warm.content[<<i, lang>>],
               warm.catalog[i].Strategy, warm.catalog[i].Paths[lang], FALSE,
               outcome)
    /\ warm' = [warm EXCEPT !.task[<<i, lang>>] = "returned",
                            !.content[<<i, lang>>] = <<>>,
                            !.count[i] = @ + IF ret'.err THEN 0 ELSE 1]
    /\ UNCHANGED <<reval, rv, mu>>

\* wg.Wait() in cacheStaticRoute, then totalCached.Add(int32(count))
WorkerAdd(i) ==
    /\ warm # NoCall
    /\ i \in DOMAIN warm.route
    /\ warm.route[i] = "running"
    /\ \A p \in TasksOf(i) : warm.task[p] = "returned"
    /\ warm' = [warm EXCEPT !.route[i] = "done",
                            !.totalCached = @ + warm.count[i]]
    /\ UNCHANGED <<clock, memVars, diskVars, bgVars, threads, reval, rv, mu, ret>>

\* close(routeChan); wg.Wait(); return int(totalCached.Load()), nil
WarmReturn ==
    /\ warm # NoCall
    /\ ~warm.returned
    /\ warm.next > Len(warm.catalog)
    /\ \A i \in DOMAIN warm.route : warm.route[i] \in {"dropped", "done"}
    /\ warm' = [warm EXCEPT !.returned = TRUE]
    /\ ret' = IF warm.op = "Bootstrap"
              THEN [op |-> warm.op, err |-> FALSE]
              ELSE [op |-> warm.op, val |-> warm.totalCached, err |-> FALSE]
    /\ UNCHANGED <<clock, memVars, diskVars, bgVars, threads, reval, rv, mu>>

\* The warmer as it starts on a catalog
StartWarm(catalog, languages, force, filter) ==
    [catalog     |-> catalog,
     force       |-> force,
     filter      |-> filter,
     next        |-> 1,
     route       |-> [i \in 1..Len(catalog) |-> "queued"],
     task        |-> [p \in (1..Len(catalog)) \X languages |-> "idle"],
     content     |-> [p \in (1..Len(catalog)) \X languages |-> <<>>],
     count       |-> [i \in 1..Len(catalog) |-> 0],
     totalCached |-> 0,
     returned    |-> FALSE]

\* Bootstrap(ctx, config): no strategy filter; config.ForceRebuild is used as
\* the caller passed it
Bootstrap(catalog, languages, ForceRebuild) ==
    [op |-> "Bootstrap"] @@ StartWarm(catalog, languages, ForceRebuild, "")

\* RebuildAll(ctx, config): config.ForceRebuild = true; rebuildCaches(.., "")
RebuildAll(catalog, languages, ForceRebuild) ==
    [op |-> "RebuildAll"] @@ StartWarm(catalog, languages, TRUE, "")

\* RebuildByStrategy without config.ForceRebuild = true
RebuildByStrategyAsConfigured(catalog, languages, ForceRebuild, strategy) ==
    [op |-> "RebuildByStrategy"]
        @@ StartWarm(catalog, languages, ForceRebuild, strategy)

\* RebuildByStrategy(ctx, config, strategy): config.ForceRebuild = true;
\* rebuildCaches(.., strategy)
RebuildByStrategy(catalog, languages, ForceRebuild, strategy) ==
    [op |-> "RebuildByStrategy"] @@ StartWarm(catalog, languages, TRUE, strategy)

-----------------------------------------------------------------------------
(* The work queue of the bulk warmer, step by step: the producer sends the  *)
(* routes one by one on routeChan and closes it; each of the maxWorkers     *)
(* workers receives a route, runs the loop body on it and comes back for    *)
(* the next, and leaves the loop when the channel is closed and empty; the  *)
(* caller returns when every worker has left (wg.Wait).  The workers are    *)
(* told apart only by the route they hold (the loop variable `route`, a     *)
(* RouteConfig value): warm.held counts the workers holding each route      *)
(* before cacheStaticRoute, warm.route[i] = "running" marks a worker inside *)
(* cacheStaticRoute for the i-th route.                                     *)

routeChanCapacityOne(catalog) == 1

\* routeChan := make(chan RouteConfig, len(routesConfig.Routes))
routeChanCapacity(catalog) == Len(catalog)

\* The number of routes on the channel: sent and not yet received
OnChannel == warm.sent - (warm.next - 1)

\* The number of workers that have received a route and hold it
Busy ==
    Cardinality({h \in (DOMAIN warm.held) \X (1..maxWorkers) :
                    h[2] <= warm.held[h[1]]})
    + Cardinality({i \in DOMAIN warm.route : warm.route[i] = "running"})

\* The number of workers waiting in `for route := range routeChan`
Waiting == maxWorkers - Busy - warm.exited

\* The producer is at `routeChan <- route`
Sending == ~warm.closed /\ warm.sent < Len(warm.catalog)

\* A run with its channel: nothing sent, not closed, all workers started
StartQueue(run) ==
    [sent |-> 0, closed |-> FALSE, exited |-> 0,
     held |-> [r \in {run.catalog[i] : i \in DOMAIN run.catalog} |-> 0]] @@ run

\* routeChan <- route: blocks while the channel is full
ProducerSend ==
    /\ warm # NoCall
    /\ Sending
    /\ OnChannel < routeChanCapacity(warm.catalog)
    /\ warm' = [warm EXCEPT !.sent = @ + 1]
    /\ UNCHANGED <<clock, memVars, diskVars, bgVars, threads, reval, rv, mu, ret>>

\* close(routeChan)
ProducerClose ==
    /\ warm # NoCall
    /\ ~warm.closed
    /\ warm.sent = Len(warm.catalog)
    /\ warm' = [warm EXCEPT !.closed = TRUE]
    /\ UNCHANGED <<clock, memVars, diskVars, bgVars, threads, reval, rv, mu, ret>>

\* for route := range routeChan: a waiting worker receives the oldest route
WorkerRange ==
    /\ warm # NoCall
    /\ OnChannel > 0
    /\ Waiting > 0
    /\ warm' = [warm EXCEPT !.next = @ + 1,
                            !.held[warm.catalog[warm.next]] = @ + 1]
    /\ UNCHANGED <<clock, memVars, diskVars, bgVars, threads, reval, rv, mu, ret>>

\* The loop body up to the call of cacheStaticRoute: a route the filter
\* rejects and a dynamic route are dropped (continue), a route with a
\* parameter adds a count of 0, any other starts its goroutines
WorkerBody(route) ==
    /\ warm # NoCall
    /\ route \in DOMAIN warm.held
    /\ warm.held[route] > 0
    /\ warm' =
        IF \/ warm.filter # "" /\ route.Strategy # warm.filter
           \/ route.Strategy = "dynamic"
        THEN [warm EXCEPT !.held[route] = @ - 1]
        ELSE IF hasParams(route.Canonical)
        THEN [warm EXCEPT !.held[route] = @ - 1]
        ELSE LET i == CHOOSE j \in DOMAIN warm.catalog :
                        /\ warm.catalog[j] = route
                        /\ j < warm.next
                        /\ warm.route[j] = "queued" IN
             [warm EXCEPT !.held[route] = @ - 1,
                          !.route[i] = "running",
                          !.task = [p \in DOMAIN @ |->
                                        IF p[1] = i THEN "Get" ELSE @[p]]]
    /\ UNCHANGED <<clock, memVars, diskVars, bgVars, threads, reval, rv, mu, ret>>

\* The range loop ends for a waiting worker once the channel is closed and
\* empty; defer wg.Done()
WorkerDone ==
    /\ warm # NoCall
    /\ warm.closed
    /\ OnChannel = 0
    /\ Waiting > 0
    /\ warm' = [warm EXCEPT !.exited = @ + 1]
    /\ UNCHANGED <<clock, memVars, diskVars, bgVars, threads, reval, rv, mu, ret>>

\* The mutant of WaitReturn: a return as soon as the channel is closed
WaitReturnEarly ==
    /\ warm # NoCall
    /\ ~warm.returned
    /\ warm.closed
    /\ warm' = [warm EXCEPT !.returned = TRUE]
    /\ ret' = IF warm.op = "Bootstrap"
              THEN [op |-> warm.op, err |-> FALSE]
              ELSE [op |-> warm.op, val |-> warm.totalCached, err |-> FALSE]
    /\ UNCHANGED <<clock, memVars, diskVars, bgVars, threads, reval, rv, mu>>

\* wg.Wait() is over when every worker is done; return
WaitReturn ==
    /\ warm # NoCall
    /\ ~warm.returned
    /\ warm.closed
    /\ warm.exited = maxWorkers
    /\ warm' = [warm EXCEPT !.returned = TRUE]
    /\ ret' = IF warm.op = "Bootstrap"
              THEN [op |-> warm.op, err |-> FALSE]
              ELSE [op |-> warm.op, val |-> warm.totalCached, err |-> FALSE]
    /\ UNCHANGED <<clock, memVars, diskVars, bgVars, threads, reval, rv, mu>>

-----------------------------------------------------------------------------
(* Spec: the life of one key.  One caller after another on a new Manager    *)
(* over an empty directory; the disk and the compressor do not fail.        *)

\* NewManager over an empty cache directory
InitManager ==
    /\ clock = 0
    /\ index = EmptyIndex
    /\ heap = EmptyHeap
    /\ brFile = EmptyDisk
    /\ htmlFile = EmptyDisk
    /\ pending = {}
    /\ passes = {}
    /\ router = FALSE
    /\ threads = AllIdle
    /\ warm = NoCall
    /\ reval = NoCall
    /\ rv = NoCall
    /\ mu = Unlocked
    /\ ret = NoCall

Init == InitManager /\ hist = NoCall

Seconds == 0..MaxSec

\* hist: the Entry of the key before the step
Before == EntryOf(KeyA)

Next ==
    \/ Get(KeyA, FALSE) /\ hist' = Before /\ UNCHANGED <<warm, reval, rv, mu>>
    \/ \E c \in Payloads, s \in {"static", "incremental"}, p \in RequestPaths :
            Set(KeyA, c, s, p, FALSE) /\ hist' = Before /\ UNCHANGED <<warm, reval, rv, mu>>
    \/ \E c \in Payloads, s \in {"static", "incremental"}, p \in RequestPaths :
            SetSync(KeyA, c, s, p, FALSE, "ok") /\ hist' = Before /\ UNCHANGED <<warm, reval, rv, mu>>
    \/ \E w \in pending : writeFunc(w, "ok") /\ hist' = Before /\ UNCHANGED <<warm, reval, rv, mu>>
    \/ Delete(KeyA) /\ hist' = Before /\ UNCHANGED <<warm, reval, rv, mu>>
    \/ ManagerMarkAllStale(FALSE) /\ hist' = Before /\ UNCHANGED <<warm, reval, rv, mu>>
    \/ \E keep \in BOOLEAN : Restart(keep) /\ hist' = Before /\ UNCHANGED <<warm, reval, rv, mu>>
    \/ \E t \in Seconds : Tick(t) /\ hist' = Before /\ UNCHANGED <<warm, reval, rv, mu>>

Spec == Init /\ [][Next]_vars

\* C2: a Set or SetSync on a key whose Entry is in the memory index adds exactly
\* one to the Entry's generation, leaves it fresh, and gives it an ETag other
\* than the one it had, also when the content is the same bytes as before.
C2_UpdateAdvances ==
    ret.op \in {"Set", "SetSync"} /\ hist # NoEntry =>
        LET e == EntryOf(ret.key) IN
        /\ e.Generation = hist.Generation + 1
        /\ ~e.stale
        /\ e.ETag # hist.ETag

\* A stale Entry has been updated with the bytes it already held, in the second
\* in which it was last rendered.
C2_Witness ==
    /\ ret.op \in {"Set", "SetSync"}
    /\ hist # NoEntry
    /\ hist.stale
    /\ hist.Content = EntryOf(ret.key).Content
    /\ hist.RenderedAt = EntryOf(ret.key).RenderedAt

-----------------------------------------------------------------------------
(* SpecStale: two keys of any strategy, every Manager operation, the marking *)
(* operations with and without eager revalidation.  A key is deleted here   *)
(* when no revalidation pass still holds its entry.                         *)

NextStale ==
    \/ \E k \in Keys : Get(k, FALSE) /\ UNCHANGED <<warm, reval, rv, mu, hist>>
    \/ \E k \in Keys, s \in Strategies :
            SetSync(k, <<"a">>, s, <<"/", "p">>, FALSE, "ok") /\ UNCHANGED <<warm, reval, rv, mu, hist>>
    \/ \E k \in Keys :
            index[k] \notin UNION passes /\ Delete(k) /\ UNCHANGED <<warm, reval, rv, mu, hist>>
    \/ \E s \in Strategies, eager \in BOOLEAN :
            ManagerMarkStale(s, eager) /\ UNCHANGED <<warm, reval, rv, mu, hist>>
    \/ \E eager \in BOOLEAN : ManagerMarkAllStale(eager) /\ UNCHANGED <<warm, reval, rv, mu, hist>>
    \/ \E pass \in passes : eagerRevalidate(pass) /\ UNCHANGED <<warm, reval, rv, mu, hist>>
    \/ Restart(FALSE) /\ UNCHANGED <<warm, reval, rv, mu, hist>>

SpecStale == Init /\ [][NextStale]_vars

IsStaleAt(h, id) == h[id] # NoEntry /\ h[id].stale

\* C3: in any sequence of Manager operations the stale flag of an Entry is set
\* only by MarkStale(S, .) on a memory-resident Entry whose strategy is S, or by
\* MarkAllStale, and never on an Entry whose strategy is immutable.
C3_MarkStaleOnlyMatching ==
    [][ /\ \A id \in Ids :
            IsStaleAt(heap', id) /\ ~IsStaleAt(heap, id) =>
                /\ ret'.op \in {"MarkStale", "MarkAllStale"}
                /\ id \in Resident(index)
                /\ heap[id].Strategy # "immutable"
                /\ ret'.op = "MarkStale" => heap[id].Strategy = ret'.strategy
        /\ \A id \in Ids :
            IsStaleAt(heap', id) => heap'[id].Strategy # "immutable"
      ]_vars

\* MarkStale("immutable", .) has run over an index holding an immutable Entry,
\* next to a stale Entry of another strategy.
C3_Witness ==
    /\ ret.op = "MarkStale"
    /\ ret.strategy = "immutable"
    /\ \E id \in Resident(index) : heap[id].Strategy = "immutable"
    /\ \E id \in Resident(index) : heap[id].stale

\* The entries a marking call that returned r is to mark, in the state before
Marked(r) ==
    {id \in Resident(index) :
        /\ heap[id].Strategy # "immutable"
        /\ r.op = "MarkStale" => heap[id].Strategy = r.strategy}

\* C27: MarkStale(S, eager) returns the number of memory-resident entries of
\* strategy S, none when S is immutable, and MarkAllStale(eager) the number of
\* memory-resident entries that are not immutable; these entries are stale
\* afterwards, and the call changes no other field of any entry, no entry
\* beside them, and neither the keys of the memory index nor the files.
C27_MarkStaleCountsAndKeeps ==
    [][ ret'.op \in {"MarkStale", "MarkAllStale"} =>
          /\ ret'.count = Cardinality(Marked(ret'))
          /\ \A id \in Marked(ret') : heap'[id] = [heap[id] EXCEPT !.stale = TRUE]
          /\ \A id \in Ids \ Marked(ret') : heap'[id] = heap[id]
          /\ index' = index
          /\ brFile' = brFile
          /\ htmlFile' = htmlFile
      ]_vars

\* MarkStale has counted one entry and left the entry of another strategy
\* fresh, both on disk; the marked one has a generation above 1, so that it
\* was updated before.
C27_Witness ==
    /\ ret.op = "MarkStale"
    /\ ret.count = 1
    /\ \E id \in Resident(index) :
            heap[id].stale /\ heap[id].Strategy = ret.strategy
                /\ heap[id].Generation > 1
    /\ \E id \in Resident(index) : ~heap[id].stale
    /\ \A k \in Keys : StorageExists(k)

-----------------------------------------------------------------------------
(* SpecEntry: one Entry and the methods of Entry, called in any order while *)
(* time passes.                                                             *)

EntryStrategies == {"immutable", "static", "incremental", "dynamic", "custom"}

Times == {s + d * TwentyFourHours : s \in 0..MaxSec, d \in 0..MaxDays}

InitEntry ==
    /\ clock = 0
    /\ index = EmptyIndex
    /\ \E s \in EntryStrategies :
            heap = [EmptyHeap EXCEPT ![1] = NewEntry(<<"a">>, s, <<>>, 0)]
    /\ brFile = EmptyDisk
    /\ htmlFile = EmptyDisk
    /\ pending = {}
    /\ passes = {}
    /\ router = FALSE
    /\ threads = AllIdle
    /\ warm = NoCall
    /\ reval = NoCall
    /\ rv = NoCall
    /\ mu = Unlocked
    /\ ret = NoCall
    /\ hist = NoCall

EntryMarkStale(id) ==
    /\ heap' = [heap EXCEPT ![id] = MarkStale(@)]
    /\ ret' = [op |-> "Entry.MarkStale", id |-> id]
    /\ UNCHANGED <<clock, index, diskVars, bgVars, threads>>

EntryMarkFresh(id) ==
    /\ heap' = [heap EXCEPT ![id] = MarkFresh(@)]
    /\ ret' = [op |-> "Entry.MarkFresh", id |-> id]
    /\ UNCHANGED <<clock, index, diskVars, bgVars, threads>>

EntryUpdate(id, content, requestPath) ==
    /\ heap[id].Generation < MaxGen
    /\ heap' = [heap EXCEPT ![id] = Update(@, content, requestPath, clock)]
    /\ ret' = [op |-> "Entry.Update", id |-> id]
    /\ UNCHANGED <<clock, index, diskVars, bgVars, threads>>

EntryShouldRevalidate(id) ==
    /\ ret' = [op |-> "Entry.ShouldRevalidate", id |-> id,
               val |-> ShouldRevalidate(heap[id], clock)]
    /\ UNCHANGED <<clock, memVars, diskVars, bgVars, threads>>

NextEntry ==
    \/ EntryMarkStale(1) /\ UNCHANGED <<warm, reval, rv, mu, hist>>
    \/ EntryMarkFresh(1) /\ UNCHANGED <<warm, reval, rv, mu, hist>>
    \/ EntryUpdate(1, <<"a">>, <<>>) /\ UNCHANGED <<warm, reval, rv, mu, hist>>
    \/ EntryShouldRevalidate(1) /\ UNCHANGED <<warm, reval, rv, mu, hist>>
    \/ \E t \in Times : Tick(t) /\ UNCHANGED <<warm, reval, rv, mu, hist>>

SpecEntry == InitEntry /\ [][NextEntry]_vars

\* C1: ShouldRevalidate answers false for an immutable entry whatever its stale
\* flag; otherwise true when the stale flag is set; otherwise, for an incremental
\* entry, true exactly when now - RenderedAt is more than 24 hours; otherwise
\* false.
C1_ShouldRevalidateTable ==
    ret.op = "Entry.ShouldRevalidate" =>
        LET e == heap[ret.id]
            immutable == e.Strategy = "immutable"
            incremental == e.Strategy = "incremental"
        IN  /\ immutable => ret.val = FALSE
            /\ ~immutable /\ e.stale => ret.val = TRUE
            /\ ~immutable /\ ~e.stale /\ incremental =>
                    ret.val = (clock - e.RenderedAt > TwentyFourHours)
            /\ ~immutable /\ ~e.stale /\ ~incremental => ret.val = FALSE

\* An immutable entry whose raw stale flag is set has been asked.
C1_Witness ==
    /\ ret.op = "Entry.ShouldRevalidate"
    /\ heap[ret.id].Strategy = "immutable"
    /\ heap[ret.id].stale
    /\ ret.val = FALSE

\* An incremental, fresh entry rendered exactly 24 hours ago, and one rendered
\* a second earlier, have been asked.
C1_WitnessAge ==
    /\ ret.op = "Entry.ShouldRevalidate"
    /\ heap[ret.id].Strategy = "incremental"
    /\ ~heap[ret.id].stale
    /\ clock - heap[ret.id].RenderedAt = TwentyFourHours + 1
    /\ ret.val = TRUE

-----------------------------------------------------------------------------
(* SpecKey: GetCacheKey called on canonical paths, languages and parameter  *)
(* maps.                                                                    *)

Blog == <<"/", "b", "l", "o", "g", "/">>
Slug == <<"s", "l", "u", "g">>
Placeholder(name) == <<"{">> \o name \o <<"}">>

KeyCanonicals ==
    { Blog \o Placeholder(Slug),
      <<"/", "a", "b", "o", "u", "t">>,
      <<"/">> \o Placeholder(<<"t">>) \o <<"/">> \o Placeholder(Slug)
            \o <<"/">> \o Placeholder(<<"t">>),
      <<"/">> \o Placeholder(Slug) \o Placeholder(<<"u">>) }
KeyLanguages == {<<"e", "n">>, <<"t", "r">>}
ParamNames == {Slug, <<"t">>}
ParamValues == {<<"h", "e", "l", "l", "o">>, Placeholder(<<"t">>), <<"x">>}
PathParams == UNION {[D -> ParamValues] : D \in SUBSET ParamNames}

CallGetCacheKey(canonical, lang, pathParams) ==
    /\ \E key \in GetCacheKeys(canonical, lang, pathParams) :
            ret' = [op |-> "GetCacheKey", canonical |-> canonical, lang |-> lang,
                    pathParams |-> pathParams, val |-> key]
    /\ UNCHANGED <<clock, memVars, diskVars, bgVars, threads>>

NextKey ==
    /\ \E canonical \in KeyCanonicals, lang \in KeyLanguages, pp \in PathParams :
            CallGetCacheKey(canonical, lang, pp)
    /\ UNCHANGED <<warm, reval, rv, mu, hist>>

SpecKey == Init /\ [][NextKey]_vars

RECURSIVE EveryOccurrenceReplaced(_, _, _, _)
\* s from position i on, with every occurrence of old replaced by new
EveryOccurrenceReplaced(s, i, old, new) ==
    IF i > Len(s) THEN <<>>
    ELSE IF i + Len(old) - 1 <= Len(s) /\ SubSeq(s, i, i + Len(old) - 1) = old
         THEN new \o EveryOccurrenceReplaced(s, i + Len(old), old, new)
         ELSE <<s[i]>> \o EveryOccurrenceReplaced(s, i + 1, old, new)

RECURSIVE ReplacedForEach(_, _, _)
ReplacedForEach(s, m, names) ==
    IF names = <<>> THEN s
    ELSE ReplacedForEach(
            EveryOccurrenceReplaced(s, 1, Placeholder(Head(names)), m[Head(names)]),
            m, Tail(names))

C33_SameArgumentsSameKey ==
    [][ /\ ret.op = "GetCacheKey" /\ ret'.op = "GetCacheKey"
        /\ ret'.canonical = ret.canonical
        /\ ret'.lang = ret.lang
        /\ ret'.pathParams = ret.pathParams
        => ret'.val = ret.val ]_vars

-----------------------------------------------------------------------------
(* SpecDistinct: two callers, each with a key of its own, each calling Set  *)
(* or SetSync on it again and again while the other does the same.  hist    *)
(* counts the calls issued for each key and remembers whether the two       *)
(* callers were ever inside set at the same time.                           *)

KeyOf(t) == IF t = "t1" THEN KeyA ELSE KeyB

InitDistinct ==
    /\ InitManager
    /\ hist = [issued |-> [k \in Keys |-> 0], overlapped |-> FALSE]

Overlap == \A t \in Threads : threads'[t].pc # "idle"

NextDistinct ==
    \/ \E t \in Threads, sync \in BOOLEAN :
            /\ hist.issued[KeyOf(t)] < MaxGen
            /\ CallSet(t, KeyOf(t), <<"a">>, "static", <<>>, sync, FALSE)
            /\ hist' = [issued |-> [hist.issued EXCEPT ![KeyOf(t)] = @ + 1],
                        overlapped |-> hist.overlapped \/ Overlap]
            /\ UNCHANGED <<warm, reval, rv, mu>>
    \/ \E t \in Threads : SetLoad(t) /\ UNCHANGED <<warm, reval, rv, mu, hist>>
    \/ \E t \in Threads : UpdateContent(t) /\ UNCHANGED <<warm, reval, rv, mu, hist>>
    \/ \E t \in Threads : UpdateRenderedAt(t) /\ UNCHANGED <<warm, reval, rv, mu, hist>>
    \/ \E t \in Threads : UpdateGenerationRead(t) /\ UNCHANGED <<warm, reval, rv, mu, hist>>
    \/ \E t \in Threads : UpdateGenerationWrite(t) /\ UNCHANGED <<warm, reval, rv, mu, hist>>
    \/ \E t \in Threads : UpdateETag(t) /\ UNCHANGED <<warm, reval, rv, mu, hist>>
    \/ \E t \in Threads : UpdateRequestPath(t) /\ UNCHANGED <<warm, reval, rv, mu, hist>>
    \/ \E t \in Threads : UpdateMarkFresh(t) /\ UNCHANGED <<warm, reval, rv, mu, hist>>
    \/ \E t \in Threads : SetStore(t) /\ UNCHANGED <<warm, reval, rv, mu, hist>>
    \/ \E t \in Threads : SetWrite(t, "ok") /\ UNCHANGED <<warm, reval, rv, mu, hist>>
    \/ \E w \in pending : writeFunc(w, "ok") /\ UNCHANGED <<warm, reval, rv, mu, hist>>

SpecDistinct == InitDistinct /\ [][NextDistinct]_vars

\* C4: when each caller works on a key of its own and issues its set/setSync
\* calls one after another, then, once every call has returned, the index holds
\* one Entry for every key that was set, no two keys share an Entry, and the
\* generation of a key's Entry is the number of calls issued for the key.
C4_NoLostUpdate ==
    (\A t \in Threads : threads[t] = Idle) =>
        /\ \A k \in Keys :
                IF hist.issued[k] = 0 THEN index[k] = 0
                ELSE /\ index[k] # 0
                     /\ heap[index[k]].Generation = hist.issued[k]
        /\ Cardinality(Resident(index)) =
                Cardinality({k \in Keys : hist.issued[k] > 0})

\* Both callers have returned from their second call, and they were inside set
\* at the same time.
C4_Witness ==
    /\ \A t \in Threads : threads[t] = Idle
    /\ \A k \in Keys : hist.issued[k] >= 2
    /\ hist.overlapped

-----------------------------------------------------------------------------
(* SpecConc: two callers on one key, each calling Get, Set or SetSync, with *)
(* MarkStale and MarkAllStale in between.  The process starts on a cache    *)
(* directory that holds the key's files or does not.  No Delete and no      *)
(* restart.  hist counts the set calls.                                     *)

InitConc ==
    /\ clock = 0
    /\ index = EmptyIndex
    /\ heap = EmptyHeap
    /\ \E onDisk \in BOOLEAN :
         /\ brFile = IF onDisk
                     THEN StorageWriteBr(EmptyDisk, KeyA, CompressBrotli(<<"a">>), "ok")
                     ELSE EmptyDisk
         /\ htmlFile = IF onDisk
                       THEN StorageWriteHtml(EmptyDisk, KeyA, <<"a">>, "ok")
                       ELSE EmptyDisk
    /\ pending = {}
    /\ passes = {}
    /\ router = FALSE
    /\ threads = AllIdle
    /\ warm = NoCall
    /\ reval = NoCall
    /\ rv = NoCall
    /\ mu = Unlocked
    /\ ret = NoCall
    /\ hist = [sets |-> 0]

NextConc ==
    \/ \E t \in Threads, s \in {"static", "incremental"}, sync \in BOOLEAN :
            /\ hist.sets < MaxSets
            /\ CallSet(t, KeyA, <<"a">>, s, <<>>, sync, FALSE)
            /\ hist' = [sets |-> hist.sets + 1]
            /\ UNCHANGED <<warm, reval, rv, mu>>
    \/ \E t \in Threads : CallGet(t, KeyA) /\ UNCHANGED <<warm, reval, rv, mu, hist>>
    \/ \E t \in Threads : GetLoad(t) /\ UNCHANGED <<warm, reval, rv, mu, hist>>
    \/ \E t \in Threads : GetExists(t) /\ UNCHANGED <<warm, reval, rv, mu, hist>>
    \/ \E t \in Threads : GetLoadFromDisk(t, FALSE) /\ UNCHANGED <<warm, reval, rv, mu, hist>>
    \/ \E t \in Threads : GetStore(t) /\ UNCHANGED <<warm, reval, rv, mu, hist>>
    \/ \E t \in Threads : SetLoad(t) /\ UNCHANGED <<warm, reval, rv, mu, hist>>
    \/ \E t \in Threads : UpdateContent(t) /\ UNCHANGED <<warm, reval, rv, mu, hist>>
    \/ \E t \in Threads : UpdateRenderedAt(t) /\ UNCHANGED <<warm, reval, rv, mu, hist>>
    \/ \E t \in Threads : UpdateGenerationRead(t) /\ UNCHANGED <<warm, reval, rv, mu, hist>>
    \/ \E t \in Threads : UpdateGenerationWrite(t) /\ UNCHANGED <<warm, reval, rv, mu, hist>>
    \/ \E t \in Threads : UpdateETag(t) /\ UNCHANGED <<warm, reval, rv, mu, hist>>
    \/ \E t \in Threads : UpdateRequestPath(t) /\ UNCHANGED <<warm, reval, rv, mu, hist>>
    \/ \E t \in Threads : UpdateMarkFresh(t) /\ UNCHANGED <<warm, reval, rv, mu, hist>>
    \/ \E t \in Threads : SetStore(t) /\ UNCHANGED <<warm, reval, rv, mu, hist>>
    \/ \E t \in Threads : SetWrite(t, "ok") /\ UNCHANGED <<warm, reval, rv, mu, hist>>
    \/ \E s \in {"static", "incremental"} :
            ManagerMarkStale(s, FALSE) /\ UNCHANGED <<warm, reval, rv, mu, hist>>
    \/ ManagerMarkAllStale(FALSE) /\ UNCHANGED <<warm, reval, rv, mu, hist>>
    \/ \E w \in pending : writeFunc(w, "ok") /\ UNCHANGED <<warm, reval, rv, mu, hist>>

SpecConc == InitConc /\ [][NextConc]_vars

\* C9: without Delete and within one process, the generation of the Entry the
\* index holds for a key never decreases, however the steps of concurrent Get,
\* Set, SetSync, MarkStale and MarkAllStale calls interleave.
C9_GenerationNeverDecreases ==
    [][ index[KeyA] # 0 /\ index'[KeyA] # 0 =>
            heap'[index'[KeyA]].Generation >= heap[index[KeyA]].Generation
      ]_vars

\* C10: once the index holds an Entry for a key, the strategy of the Entry it
\* holds for the key stays what it was, however the steps of concurrent Get,
\* Set and SetSync calls interleave.
C10_StrategyNeverChanges ==
    [][ index[KeyA] # 0 /\ index'[KeyA] # 0 =>
            heap'[index'[KeyA]].Strategy = heap[index[KeyA]].Strategy
      ]_vars

\* C11: once the index holds an Entry for a key, and without Delete, the index
\* goes on holding that same Entry object for the key: no step of concurrent
\* Get, Set and SetSync calls puts another Entry in its place.
C11_SameEntryInPlace ==
    [][ index[KeyA] # 0 /\ index'[KeyA] # 0 => index'[KeyA] = index[KeyA]
      ]_vars

\* C28: in every state, also between the steps of a Set or SetSync that
\* updates it, the ETag of an Entry in the memory index is the fingerprint of
\* the content, generation and rendering time the Entry holds in that state.
C28_ETagMatchesFields ==
    \A id \in Resident(index) :
        heap[id].ETag = generateETag(heap[id].Content, heap[id].Generation,
                                     heap[id].RenderedAt)

-----------------------------------------------------------------------------
(* SpecDurable: one key, written with Set and SetSync, with a compressor    *)
(* and a disk that can fail, and restarts.  hist follows the scenario "a    *)
(* set, then at once a restart, then at once a Get": how far it has come,   *)
(* and with which arguments and outcomes.  The goroutines of earlier Set    *)
(* calls run whenever they run; they are not calls and do not end the       *)
(* scenario.                                                                *)

NoScenario ==
    [stage |-> "none", content |-> <<>>, sync |-> FALSE, cfail |-> FALSE,
     outcome |-> "ok", clean |-> FALSE, rfail |-> FALSE]

SetScenario(content, sync, cfail, outcome) ==
    [stage |-> "set", content |-> content, sync |-> sync, cfail |-> cfail,
     outcome |-> outcome, clean |-> (pending = {}), rfail |-> FALSE]

InitDurable == InitManager /\ hist = NoScenario

NextDurable ==
    \/ \E c \in Payloads, s \in {"immutable", "incremental"} :
            /\ Set(KeyA, c, s, <<>>, FALSE)
            /\ hist' = SetScenario(c, FALSE, FALSE, "ok")
            /\ UNCHANGED <<warm, reval, rv, mu>>
    \/ \E c \in Payloads, s \in {"immutable", "incremental"},
           cfail \in BOOLEAN, outcome \in WriteOutcomes :
            /\ SetSync(KeyA, c, s, <<>>, cfail, outcome)
            /\ hist' = SetScenario(c, TRUE, cfail, outcome)
            /\ UNCHANGED <<warm, reval, rv, mu>>
    \/ \E w \in pending, outcome \in {"ok", "brfail"} :
            /\ writeFunc(w, outcome)
            /\ UNCHANGED <<warm, reval, rv, mu, hist>>
    \/ \E keep \in BOOLEAN :
            /\ Restart(keep)
            /\ hist' = IF hist.stage = "set"
                        THEN [hist EXCEPT !.stage = "restarted"]
                        ELSE NoScenario
            /\ UNCHANGED <<warm, reval, rv, mu>>
    \/ \E rfail \in BOOLEAN :
            /\ Get(KeyA, rfail)
            /\ hist' = IF hist.stage = "restarted"
                        THEN [hist EXCEPT !.stage = "got", !.rfail = rfail]
                        ELSE NoScenario
            /\ UNCHANGED <<warm, reval, rv, mu>>
    \/ Delete(KeyA) /\ hist' = NoScenario /\ UNCHANGED <<warm, reval, rv, mu>>

SpecDurable == InitDurable /\ [][NextDurable]_vars

\* What the scenario promises of the Get that ends it
FoundAsStored ==
    /\ ret.found
    /\ GetDecompressedContent(EntryOf(KeyA)) = hist.content
    /\ EntryOf(KeyA).Strategy = "static"
    /\ EntryOf(KeyA).Generation = 1

\* C7 as stated: after a set (Set or SetSync), at once a restart and at once a
\* Get, the Get finds the key, the content of the Entry decompresses to the
\* bytes given to set, its strategy is static and its generation 1.
C7_SetThenRestartThenGet ==
    hist.stage = "got" => FoundAsStored

\* C7: after a SetSync whose compression and whose write to the disk succeeded,
\* issued when no write of an earlier Set was outstanding, then at once a
\* restart and at once a Get whose read of the disk succeeds, the Get finds the
\* key, the content of the Entry decompresses to the bytes given to SetSync,
\* its strategy is static and its generation 1, whatever strategy was passed.
C7_SetSyncThenRestartThenGet ==
    /\ hist.stage = "got"
    /\ hist.sync /\ ~hist.cfail /\ hist.outcome = "ok"
    /\ hist.clean /\ ~hist.rfail
    => FoundAsStored

\* The scenario has run from a SetSync that replaced older content on the disk.
C7_Witness ==
    /\ hist.stage = "got"
    /\ hist.sync /\ ~hist.cfail /\ hist.outcome = "ok"
    /\ hist.clean /\ ~hist.rfail
    /\ hist.content = <<"b">>
    /\ htmlFile[getCacheFileName(KeyA)] = <<hist.content>>
    /\ ret.found

-----------------------------------------------------------------------------
(* SpecRead: one key, every operation on it, a disk whose reads and writes  *)
(* can fail.  hist is what the two tiers held for the key before the last   *)
(* step, and whether the read of that step failed.                          *)

Tiers(rfail) ==
    [id |-> index[KeyA], entry |-> EntryOf(KeyA),
     file |-> brFile[getCacheFileName(KeyA)], rfail |-> rfail]

InitRead == InitManager /\ hist = NoCall

NextRead ==
    \/ \E rfail \in BOOLEAN : Get(KeyA, rfail) /\ hist' = Tiers(rfail) /\ UNCHANGED <<warm, reval, rv, mu>>
    \/ \E c \in Payloads, cfail \in BOOLEAN, outcome \in WriteOutcomes :
            /\ SetSync(KeyA, c, "incremental", <<"/", "p">>, cfail, outcome)
            /\ hist' = Tiers(FALSE) /\ UNCHANGED <<warm, reval, rv, mu>>
            /\ UNCHANGED <<warm, reval, rv, mu>>
    \/ \E c \in Payloads :
            /\ Set(KeyA, c, "incremental", <<"/", "p">>, FALSE)
            /\ hist' = Tiers(FALSE) /\ UNCHANGED <<warm, reval, rv, mu>>
            /\ UNCHANGED <<warm, reval, rv, mu>>
    \/ \E w \in pending : writeFunc(w, "ok") /\ hist' = Tiers(FALSE) /\ UNCHANGED <<warm, reval, rv, mu>>
    \/ Delete(KeyA) /\ hist' = Tiers(FALSE) /\ UNCHANGED <<warm, reval, rv, mu>>
    \/ ManagerMarkAllStale(FALSE) /\ hist' = Tiers(FALSE) /\ UNCHANGED <<warm, reval, rv, mu>>
    \/ Restart(FALSE) /\ hist' = Tiers(FALSE) /\ UNCHANGED <<warm, reval, rv, mu>>

SpecRead == InitRead /\ [][NextRead]_vars

\* C8 as stated, its last part: Get returns not found exactly when the key is
\* in neither tier.
C8_NotFoundExactlyWhenAbsent ==
    ret.op = "Get" =>
        (~ret.found <=> hist.id = 0 /\ hist.file = Absent)

\* C8: Get is a read-through lookup.  A key in the index: its Entry is returned
\* and the Storage is not touched.  Otherwise, a .br file that exists and is
\* read: an Entry is built from its bytes, with generation 1, not stale,
\* strategy static and no request path, put in the index and returned.  Not
\* found exactly when the key is not in the index and its .br file does not
\* exist or cannot be read; the index is then left without the key.
C8_GetReadsThrough ==
    ret.op = "Get" =>
        /\ hist.id # 0 =>
                /\ ret.found /\ ret.id = hist.id /\ ret.io = <<>>
                /\ index[KeyA] = hist.id /\ EntryOf(KeyA) = hist.entry
        /\ hist.id = 0 /\ hist.file # Absent /\ ~hist.rfail =>
                /\ ret.found /\ ret.id # 0 /\ index[KeyA] = ret.id
                /\ EntryOf(KeyA) = [Content     |-> hist.file[1],
                                    RenderedAt  |-> clock,
                                    Strategy    |-> "static",
                                    ETag        |-> generateETag(hist.file[1], 1, clock),
                                    RequestPath |-> <<>>,
                                    Generation  |-> 1,
                                    stale       |-> FALSE]
        /\ ~ret.found <=> hist.id = 0 /\ (hist.file = Absent \/ hist.rfail)
        /\ ~ret.found => index[KeyA] = 0
        /\ brFile[getCacheFileName(KeyA)] = hist.file

\* A Get has filled the index from a file that an earlier process wrote.
C8_Witness ==
    /\ ret.op = "Get"
    /\ hist.id = 0
    /\ hist.file = <<CompressBrotli(<<"b">>)>>
    /\ ret.found
    /\ EntryOf(KeyA).Strategy = "static"

\* C20: a Get of a key that the index does not hold and whose .br file exists
\* but cannot be read reports not found, after Exists and ReadBrotli, and
\* leaves the index and the heap of entries as they were: nothing is inserted.
\* (Get returns an Entry and a bool only: there is no error to raise.)
C20_UnreadableFileIsAMiss ==
    /\ ret.op = "Get"
    /\ hist.id = 0 /\ hist.file # Absent /\ hist.rfail
    =>
        /\ ~ret.found /\ ret.id = 0
        /\ ret.io = <<"Exists", "ReadBrotli">>
        /\ index[KeyA] = 0
        /\ Resident(index) = {}
        /\ StorageExists(KeyA)

\* A Get has missed on a key whose file is on disk and could not be read.
C20_Witness ==
    /\ ret.op = "Get" /\ ~ret.found
    /\ hist.id = 0 /\ hist.rfail
    /\ hist.file = <<CompressBrotli(<<"a">>)>>
    /\ index[KeyA] = 0

-----------------------------------------------------------------------------
(* SpecWarm: one run of the bulk warmer over a catalog taken from a pool of *)
(* four routes (a static one, a dynamic one, one with a parameter, an       *)
(* immutable one that may lack the path of one language) and two languages, *)
(* on a cache that is empty, holds one page of an earlier process on disk,  *)
(* or holds it in the index as well.  Renders and disk writes can fail.     *)
(* hist remembers what the cache held at the start, the pairs requested     *)
(* from the router, and the pairs whose render or whose write failed.       *)

WarmLanguages == {<<"e">>, <<"d">>}

LocalPath(lang, page) == <<"/">> \o lang \o <<"/">> \o page

RoutePool(lacking) ==
    << [Canonical |-> <<"/", "a">>, Strategy |-> "static",
        Paths |-> [l \in WarmLanguages |-> LocalPath(l, <<"a">>)]],
       [Canonical |-> <<"/", "b">>, Strategy |-> "dynamic",
        Paths |-> [l \in WarmLanguages |-> LocalPath(l, <<"b">>)]],
       [Canonical |-> <<"/", "c", "/", "{", "i", "}">>, Strategy |-> "incremental",
        Paths |-> [l \in WarmLanguages |-> LocalPath(l, <<"c">>)]],
       [Canonical |-> <<"/", "m">>, Strategy |-> "immutable",
        Paths |-> [l \in WarmLanguages |->
                    IF lacking /\ l = <<"d">> THEN <<>>
                    ELSE LocalPath(l, <<"m">>)]] >>

RECURSIVE Pick(_, _)
\* The routes of the pool whose numbers are in the set, in the pool's order
Pick(pool, chosen) ==
    IF pool = <<>> THEN <<>>
    ELSE (IF Len(pool) \in chosen THEN Pick(SubSeq(pool, 1, Len(pool) - 1), chosen)
                                        \o <<pool[Len(pool)]>>
          ELSE Pick(SubSeq(pool, 1, Len(pool) - 1), chosen))

PoolSize == Len(RoutePool(FALSE))

\* The catalogs: no route, one route, two routes, or the whole pool
Catalogs ==
    {Pick(RoutePool(lacking), chosen) :
        chosen \in {c \in SUBSET (1..PoolSize) : Cardinality(c) # PoolSize - 1},
        lacking \in BOOLEAN}

WarmKeys ==
    {GetCacheKey(RoutePool(FALSE)[i].Canonical, l) :
        i \in 1..PoolSize, l \in WarmLanguages}

WarmFiles == {getCacheFileName(k) : k \in WarmKeys}

\* The calls of the warmer on a catalog: Bootstrap, RebuildAll and
\* RebuildByStrategy for the given strategies, each with either ForceRebuild
\* in the caller's config
WarmCalls(catalog, languages, strategies) ==
    UNION {{Bootstrap(catalog, languages, f), RebuildAll(catalog, languages, f)}
           \cup {RebuildByStrategy(catalog, languages, f, strategy) :
                    strategy \in strategies} :
           f \in BOOLEAN}

\* The Entry and the files a key has before the warmer starts: nothing, the
\* files an earlier process left, or the Entry and the files of an earlier
\* SetSync of this process
Seeds == {"none", "disk", "memory"}

SeedContent == <<"o">>

SeedEntry ==
    NewEntry(CompressBrotli(SeedContent), "static", LocalPath(<<"e">>, <<"a">>), 0)

SeedKey == GetCacheKey(<<"/", "a">>, <<"e">>)

InitWarm ==
    /\ clock = 0
    /\ \E seed \in Seeds :
         /\ index = [k \in WarmKeys |->
                        IF seed = "memory" /\ k = SeedKey THEN 1 ELSE 0]
         /\ heap = IF seed = "memory"
                   THEN [EmptyHeap EXCEPT ![1] = SeedEntry]
                   ELSE EmptyHeap
         /\ brFile = IF seed # "none"
                     THEN [[f \in WarmFiles |-> Absent] EXCEPT
                            ![getCacheFileName(SeedKey)] =
                                <<CompressBrotli(SeedContent)>>]
                     ELSE [f \in WarmFiles |-> Absent]
         /\ htmlFile = IF seed # "none"
                       THEN [[f \in WarmFiles |-> Absent] EXCEPT
                              ![getCacheFileName(SeedKey)] = <<SeedContent>>]
                       ELSE [f \in WarmFiles |-> Absent]
         /\ hist = [empty |-> seed = "none", rendersOk |-> TRUE,
                    writesOk |-> TRUE, seed |-> seed, requested |-> {},
                    renderFailed |-> {}, writeFailed |-> {}]
    /\ pending = {}
    /\ passes = {}
    /\ router = TRUE
    /\ threads = AllIdle
    /\ reval = NoCall
    /\ rv = NoCall
    /\ mu = Unlocked
    /\ \E catalog \in Catalogs :
            warm \in WarmCalls(catalog, WarmLanguages, {"static", "immutable"})
    /\ ret = NoCall

NextWarm ==
    \/ WorkerReceive /\ UNCHANGED hist
    \/ \E i \in 1..PoolSize, l \in WarmLanguages :
            TaskGet(i, l) /\ UNCHANGED hist
    \/ \E i \in 1..PoolSize, l \in WarmLanguages, status \in {StatusOK, 500} :
            /\ TaskRender(i, l, status)
            /\ hist' =
                IF warm.catalog[i].Paths[l] = <<>>
                THEN [hist EXCEPT !.rendersOk = @ /\ status = StatusOK]
                ELSE [hist EXCEPT
                        !.rendersOk = @ /\ status = StatusOK,
                        !.requested = @ \cup {<<i, l>>},
                        !.renderFailed =
                            IF status = StatusOK THEN @ ELSE @ \cup {<<i, l>>}]
    \/ \E i \in 1..PoolSize, l \in WarmLanguages, outcome \in WriteOutcomes :
            /\ TaskSetSync(i, l, outcome)
            /\ hist' = [hist EXCEPT
                          !.writesOk = @ /\ outcome = "ok",
                          !.writeFailed =
                            IF outcome = "ok" THEN @ ELSE @ \cup {<<i, l>>}]
    \/ \E i \in 1..PoolSize : WorkerAdd(i) /\ UNCHANGED hist
    \/ WarmReturn /\ UNCHANGED hist

SpecWarm == InitWarm /\ [][NextWarm]_vars

\* What the claim says of a catalog
DistinctCanonicals(catalog) ==
    \A i, j \in 1..Len(catalog) :
        i # j => catalog[i].Canonical # catalog[j].Canonical

EveryLanguageHasPath(catalog) ==
    \A i \in 1..Len(catalog), l \in WarmLanguages : catalog[i].Paths[l] # <<>>

Warmable(route) ==
    route.Strategy # "dynamic" /\ ~Contains(route.Canonical, <<"{">>)

ExpectedKeys(catalog) ==
    {GetCacheKey(catalog[i].Canonical, l) :
        i \in {j \in 1..Len(catalog) : Warmable(catalog[j])}, l \in WarmLanguages}

\* C6: a bulk warm (no strategy filter) of an empty cache, over a catalog with
\* distinct canonical paths in which every language has a path, with every
\* render answering 200, leaves in the index exactly the keys
\* GetCacheKey(canonical, lang) of the routes that are neither dynamic nor
\* parameterized, for every language, and counts each of them once; the .br
\* files it leaves are those of these keys when no disk write failed, and none
\* else in any case; a dynamic or parameterized route counts 0.
C6_WarmsExactlyTheWarmable ==
    /\ warm.returned
    /\ warm.filter = ""
    /\ hist.empty /\ hist.rendersOk
    /\ DistinctCanonicals(warm.catalog) /\ EveryLanguageHasPath(warm.catalog)
    =>
        LET expected == ExpectedKeys(warm.catalog)
            onDisk == {f \in DOMAIN brFile : brFile[f] # Absent} IN
        /\ {k \in DOMAIN index : index[k] # 0} = expected
        /\ onDisk \subseteq {getCacheFileName(k) : k \in expected}
        /\ hist.writesOk => onDisk = {getCacheFileName(k) : k \in expected}
        /\ warm.totalCached = Cardinality(expected)
        /\ \A i \in 1..Len(warm.catalog) :
                ~Warmable(warm.catalog[i]) => warm.count[i] = 0

\* The warmer has returned from the catalog of all four routes, having stored
\* the static and the immutable route in both languages.
C6_Witness ==
    /\ warm.returned
    /\ warm.filter = "" /\ ~warm.force
    /\ hist.empty /\ hist.rendersOk /\ hist.writesOk
    /\ Len(warm.catalog) = PoolSize
    /\ EveryLanguageHasPath(warm.catalog)
    /\ warm.totalCached = 4
    /\ Cardinality({f \in DOMAIN brFile : brFile[f] # Absent}) = 4

-----------------------------------------------------------------------------
(* The pairs of a run of the warmer, and what became of each.  The catalogs *)
(* of SpecWarm have distinct canonical paths, so a pair has a key of its    *)
(* own; disk reads do not fail in SpecWarm.                                 *)

\* The (route, language) pairs the run is to warm: every language of the routes
\* that pass the filter and are neither dynamic nor parameterized
WarmPairs ==
    {p \in DOMAIN warm.task :
        /\ Warmable(warm.catalog[p[1]])
        /\ warm.filter = "" \/ warm.catalog[p[1]].Strategy = warm.filter}

PairKey(p) == TaskKey(p[1], p[2])

PairPath(p) == warm.catalog[p[1]].Paths[p[2]]

\* The key of the pair was in the cache when the run started
Seeded(p) == hist.seed # "none" /\ PairKey(p) = SeedKey

\* The pair's own failure: no path for the language, a render that did not
\* answer 200, a disk write that failed
PathMissing(p) == PairPath(p) = <<>>

Failed(p) ==
    PathMissing(p) \/ p \in hist.renderFailed \/ p \in hist.writeFailed

\* The page of the pair was requested from the router and answered
Rendered(p) == p \in hist.requested /\ p \notin hist.renderFailed

\* The index holds the rendered page of the pair under the pair's key
StoredInMemory(p) ==
    /\ index[PairKey(p)] # 0
    /\ heap[index[PairKey(p)]].Content = CompressBrotli(PairPath(p))
    /\ heap[index[PairKey(p)]].Strategy = warm.catalog[p[1]].Strategy
    /\ heap[index[PairKey(p)]].RequestPath = PairPath(p)

\* The disk holds the rendered page of the pair
StoredOnDisk(p) ==
    /\ brFile[getCacheFileName(PairKey(p))] = <<CompressBrotli(PairPath(p))>>
    /\ htmlFile[getCacheFileName(PairKey(p))] = <<PairPath(p)>>

\* C12: when Bootstrap, RebuildAll or RebuildByStrategy has returned, it has
\* returned no error, and every pair it was to warm that did not fail itself
\* (and, without ForceRebuild, was not in the cache already) has been rendered
\* and is stored in the index and on disk, whichever other pairs failed for a
\* missing path, a render status other than 200 or a failed disk write.
C12_FailureDoesNotAbort ==
    warm.returned =>
        /\ ret.op = warm.op /\ ~ret.err
        /\ \A p \in WarmPairs :
                ~Failed(p) /\ (warm.force \/ ~Seeded(p)) =>
                    Rendered(p) /\ StoredInMemory(p) /\ StoredOnDisk(p)

\* A run has returned in which one pair had no path, one was answered 500,
\* one met a failed disk write, and a fourth was rendered and stored.
C12_Witness ==
    /\ warm.returned
    /\ \E p \in WarmPairs : PathMissing(p)
    /\ hist.renderFailed # {}
    /\ hist.writeFailed # {}
    /\ \E p \in WarmPairs :
            ~Failed(p) /\ Rendered(p) /\ StoredInMemory(p) /\ StoredOnDisk(p)

\* The pair was cached in this run: rendered, stored in the index and written
\* to disk
SuccessfullyCached(p) ==
    Rendered(p) /\ p \notin hist.writeFailed /\ StoredInMemory(p) /\ StoredOnDisk(p)

\* C13: the count RebuildAll or RebuildByStrategy returns is the number of pairs
\* rendered and stored in that run, a pair whose render failed, whose path is
\* missing or whose store (the disk write included) failed not being counted.
C13_CountIsSuccessfullyCached ==
    warm.returned /\ warm.op # "Bootstrap" =>
        ret.val = Cardinality({p \in WarmPairs : SuccessfullyCached(p)})

\* The Entry and the files of the seeded key are those the run found
SeedUntouched ==
    /\ brFile[getCacheFileName(SeedKey)] = <<CompressBrotli(SeedContent)>>
    /\ htmlFile[getCacheFileName(SeedKey)] = <<SeedContent>>
    /\ hist.seed = "memory" => index[SeedKey] = 1 /\ heap[1] = SeedEntry
    /\ index[SeedKey] # 0 =>
            /\ heap[index[SeedKey]].Content = CompressBrotli(SeedContent)
            /\ heap[index[SeedKey]].Generation = 1

Untouched(p) ==
    /\ p \notin hist.requested
    /\ IF Seeded(p)
       THEN SeedUntouched /\ (hist.seed = "disk" => index[SeedKey] = 0)
       ELSE /\ index[PairKey(p)] = 0
            /\ brFile[getCacheFileName(PairKey(p))] = Absent
            /\ htmlFile[getCacheFileName(PairKey(p))] = Absent

\* C17 as the specification words it: when RebuildAll or RebuildByStrategy(S)
\* has returned, every pair of a warmable route of strategy S (of any strategy
\* for S empty or RebuildAll) that did not fail itself has been rendered and
\* stored, the generation of a key that was cached before has increased, and
\* the pairs of all other routes are untouched.
C17_RebuildIncreasesGeneration ==
    warm.returned /\ warm.op # "Bootstrap" =>
        \A p \in DOMAIN warm.task :
            IF p \in WarmPairs
            THEN ~Failed(p) =>
                    /\ Rendered(p) /\ StoredInMemory(p) /\ StoredOnDisk(p)
                    /\ Seeded(p) => heap[index[PairKey(p)]].Generation > 1
            ELSE Untouched(p)

\* C17, amended: as above, but the generation has increased (by one) for a key
\* that was in the memory index, and is 1 for a key that was not, one that was
\* cached on disk only included.
C17_RebuildRendersAgain ==
    warm.returned /\ warm.op # "Bootstrap" =>
        \A p \in DOMAIN warm.task :
            IF p \in WarmPairs
            THEN ~Failed(p) =>
                    /\ Rendered(p) /\ StoredInMemory(p) /\ StoredOnDisk(p)
                    /\ heap[index[PairKey(p)]].Generation =
                            IF Seeded(p) /\ hist.seed = "memory"
                            THEN SeedEntry.Generation + 1 ELSE 1
            ELSE Untouched(p)

\* RebuildByStrategy("static") has returned from the whole pool on a cache
\* that held the static route's key in the index: the key was rendered again,
\* its generation is 2, and the immutable route was left alone.
C17_Witness ==
    /\ warm.returned /\ warm.op = "RebuildByStrategy" /\ warm.filter = "static"
    /\ Len(warm.catalog) = PoolSize
    /\ hist.seed = "memory"
    /\ \E p \in WarmPairs :
            /\ Seeded(p) /\ Rendered(p) /\ StoredInMemory(p) /\ StoredOnDisk(p)
            /\ heap[index[PairKey(p)]].Generation = 2
    /\ \E p \in DOMAIN warm.task :
            /\ warm.catalog[p[1]].Strategy = "immutable"
            /\ Untouched(p)
    /\ warm.totalCached = 2

-----------------------------------------------------------------------------
(* SpecQueue: the work queue of one run of the warmer, over a catalog of no *)
(* route, of two routes, or of one route more than there are workers, in    *)
(* one language.  Only the first route is warmed, the second has a          *)
(* parameter and the others are dynamic, so that the workers can all hold   *)
(* a route at once without the pages multiplying.                           *)

QueueLanguages == {<<"e">>}

QueueRoute(i) ==
    IF i = 1
    THEN [Canonical |-> <<"/", "a">>, Strategy |-> "static",
          Paths |-> [l \in QueueLanguages |-> LocalPath(l, <<"a">>)]]
    ELSE IF i = 2
    THEN [Canonical |-> <<"/", "c", "/", "{", "i", "}">>,
          Strategy |-> "incremental",
          Paths |-> [l \in QueueLanguages |-> LocalPath(l, <<"c">>)]]
    ELSE [Canonical |-> <<"/", "b">>, Strategy |-> "dynamic",
          Paths |-> [l \in QueueLanguages |-> LocalPath(l, <<"b">>)]]

QueueRoutes == {QueueRoute(i) : i \in 1..(maxWorkers + 1)}

QueueCatalogs ==
    {[i \in 1..n |-> QueueRoute(i)] : n \in {0, 2, maxWorkers + 1}}

InitQueue ==
    /\ clock = 0
    /\ index = [k \in WarmKeys |-> 0]
    /\ heap = EmptyHeap
    /\ \E seed \in {"none", "disk"} :
         /\ brFile = IF seed # "none"
                     THEN [[f \in WarmFiles |-> Absent] EXCEPT
                            ![getCacheFileName(SeedKey)] =
                                <<CompressBrotli(SeedContent)>>]
                     ELSE [f \in WarmFiles |-> Absent]
         /\ htmlFile = IF seed # "none"
                       THEN [[f \in WarmFiles |-> Absent] EXCEPT
                              ![getCacheFileName(SeedKey)] = <<SeedContent>>]
                       ELSE [f \in WarmFiles |-> Absent]
    /\ pending = {}
    /\ passes = {}
    /\ router = TRUE
    /\ threads = AllIdle
    /\ reval = NoCall
    /\ rv = NoCall
    /\ mu = Unlocked
    /\ \E catalog \in QueueCatalogs :
         \E run \in WarmCalls(catalog, QueueLanguages, {"static"}) :
            warm = StartQueue(run)
    /\ ret = NoCall
    /\ hist = [allBusy |-> FALSE]

\* hist.allBusy: at some moment every worker held a route while the producer
\* had a route still to send or a route was on the channel
NextQueue ==
    \/ ProducerSend /\ UNCHANGED hist
    \/ ProducerClose /\ UNCHANGED hist
    \/ /\ WorkerRange
       /\ hist' = [allBusy |-> hist.allBusy
                                \/ (Waiting = 1 /\ warm.next < Len(warm.catalog))]
    \/ \E route \in QueueRoutes : WorkerBody(route) /\ UNCHANGED hist
    \/ \E i \in 1..(maxWorkers + 1), l \in QueueLanguages :
            TaskGet(i, l) /\ UNCHANGED hist
    \/ \E i \in 1..(maxWorkers + 1), l \in QueueLanguages,
          status \in {StatusOK, 500} :
            TaskRender(i, l, status) /\ UNCHANGED hist
    \/ \E i \in 1..(maxWorkers + 1), l \in QueueLanguages,
          outcome \in {"ok", "brfail"} :
            TaskSetSync(i, l, outcome) /\ UNCHANGED hist
    \/ \E i \in 1..(maxWorkers + 1) : WorkerAdd(i) /\ UNCHANGED hist
    \/ WorkerDone /\ UNCHANGED hist
    \/ WaitReturn /\ UNCHANGED hist

SpecQueue == InitQueue /\ [][NextQueue]_vars

\* The goroutines of the producer and of the workers are scheduled, and every
\* render and every store returns: a step that can be taken is taken
FairSpecQueue == SpecQueue /\ WF_vars(NextQueue)

\* C14: every run of Bootstrap, RebuildAll or RebuildByStrategy returns, over
\* the empty catalog, a catalog of fewer routes than workers and one of more
\* routes than workers; the producer never finds the channel full when it has
\* a route to send, and no worker stays in the loop.
C14_WarmerReturns ==
    /\ [](warm # NoCall /\ Sending =>
                OnChannel < routeChanCapacity(warm.catalog))
    /\ <>(warm.returned /\ warm.exited = maxWorkers)

\* A run over more routes than workers has returned, and on the way every
\* worker held a route while another route was still to come.
C14_Witness ==
    /\ warm.returned
    /\ Len(warm.catalog) > maxWorkers
    /\ hist.allBusy
    /\ warm.totalCached = 1

\* C30: at most ten routes are with the workers at any moment, and when
\* Bootstrap, RebuildAll or RebuildByStrategy has returned, every route was
\* sent and received, the ten workers and the goroutines of every route have
\* returned and the count returned is the total; from then on the run makes no
\* request and no store, and the total does not change.
C30_ReturnIsABarrier ==
    /\ [](warm # NoCall => Busy <= maxWorkers)
    /\ [](warm # NoCall /\ warm.returned =>
            /\ warm.sent = Len(warm.catalog) /\ warm.closed /\ OnChannel = 0
            /\ warm.exited = maxWorkers /\ Busy = 0
            /\ \A p \in DOMAIN warm.task : warm.task[p] \in {"idle", "returned"}
            /\ ret.op # "Bootstrap" => ret.val = warm.totalCached)
    /\ [][warm # NoCall /\ warm.returned =>
            /\ warm' = warm /\ ret' = ret
            /\ index' = index /\ heap' = heap
            /\ brFile' = brFile /\ htmlFile' = htmlFile]_vars

\* RebuildByStrategy has returned the count 1 over more routes than workers,
\* after a moment at which every worker held a route, and the page is stored.
C30_Witness ==
    /\ warm.returned
    /\ ret.op = "RebuildByStrategy"
    /\ ret.val = 1
    /\ hist.allBusy
    /\ \E k \in WarmKeys : index[k] # 0 /\ StorageExists(k)

-----------------------------------------------------------------------------
(* SpecDelete: Delete among Set, SetSync and Get on one key, with the disk  *)
(* writes of Set running in the background.  hist.deleted: Delete has       *)
(* returned and no Set or SetSync was called since.                         *)

InitDelete == InitManager /\ hist = [deleted |-> FALSE]

NextDelete ==
    \/ \E c \in Payloads :
            /\ Set(KeyA, c, "static", <<>>, FALSE)
            /\ hist' = [deleted |-> FALSE] /\ UNCHANGED <<warm, reval, rv, mu>>
    \/ \E c \in Payloads, outcome \in WriteOutcomes :
            /\ SetSync(KeyA, c, "static", <<>>, FALSE, outcome)
            /\ hist' = [deleted |-> FALSE] /\ UNCHANGED <<warm, reval, rv, mu>>
    \/ \E w \in pending, outcome \in WriteOutcomes :
            writeFunc(w, outcome) /\ UNCHANGED <<warm, reval, rv, mu, hist>>
    \/ Delete(KeyA) /\ hist' = [deleted |-> TRUE] /\ UNCHANGED <<warm, reval, rv, mu>>
    \/ \E rfail \in BOOLEAN : Get(KeyA, rfail) /\ UNCHANGED <<warm, reval, rv, mu, hist>>

SpecDelete == InitDelete /\ [][NextDelete]_vars

\* C18: once Delete(key) has returned and until Set or SetSync is called for the
\* key again, the key is in neither tier: the index has no Entry for it,
\* Storage.Exists is false and a Get reports not found, also when the disk
\* write of an earlier Set was still to run when Delete was called.
C18_DeletedStaysGone ==
    hist.deleted =>
        /\ index[KeyA] = 0
        /\ ~StorageExists(KeyA)
        /\ ret.op = "Get" => ~ret.found

-----------------------------------------------------------------------------
(* SpecFail: Set and SetSync on one key with disk writes that may fail, and *)
(* Get in the same process.  hist remembers the last set: the content       *)
(* passed, the generation the Entry is to have after it (one more than      *)
(* before, or 1 for a new Entry), whether a disk write has failed since the *)
(* call started, and whether a Get has followed.                            *)

\* The generation a set gives the Entry of the key
NextGeneration ==
    IF index[KeyA] # 0 THEN EntryOf(KeyA).Generation + 1 ELSE 1

InitFail ==
    /\ InitManager
    /\ hist = [stage |-> "none", content |-> <<>>, gen |-> 0, failed |-> FALSE]

NextFail ==
    \/ \E c \in Payloads :
            /\ Set(KeyA, c, "incremental", <<>>, FALSE)
            /\ hist' = [stage |-> "set", content |-> c, gen |-> NextGeneration,
                        failed |-> FALSE]
            /\ UNCHANGED <<warm, reval, rv, mu>>
    \/ \E c \in Payloads, outcome \in WriteOutcomes :
            /\ SetSync(KeyA, c, "incremental", <<>>, FALSE, outcome)
            /\ hist' = [stage |-> "set", content |-> c, gen |-> NextGeneration,
                        failed |-> outcome # "ok"]
            /\ UNCHANGED <<warm, reval, rv, mu>>
    \/ \E w \in pending, outcome \in WriteOutcomes :
            /\ writeFunc(w, outcome)
            /\ hist' = [hist EXCEPT !.failed = @ \/ outcome # "ok"]
            /\ UNCHANGED <<warm, reval, rv, mu>>
    \/ \E rfail \in BOOLEAN :
            /\ Get(KeyA, rfail)
            /\ hist' = [hist EXCEPT !.stage = IF @ = "none" THEN @ ELSE "got"]
            /\ UNCHANGED <<warm, reval, rv, mu>>

SpecFail == InitFail /\ [][NextFail]_vars

\* C19: when the disk write of Set or SetSync has failed, the call has still
\* returned no error, the index holds an Entry with the content passed and the
\* generation of the creation or update, and a Get that follows in the same
\* process finds that Entry.
C19_WriteFailureKeepsMemory ==
    hist.stage # "none" /\ hist.failed =>
        /\ ret.op \in {"Set", "SetSync"} => ~ret.err
        /\ index[KeyA] # 0
        /\ GetDecompressedContent(EntryOf(KeyA)) = hist.content
        /\ EntryOf(KeyA).Generation = hist.gen
        /\ hist.stage = "got" /\ ret.op = "Get" =>
                ret.found /\ ret.id = index[KeyA]

\* A SetSync has updated the Entry of the key to generation 2, its disk write
\* failed as every write before it, and a Get has found the Entry in the index
\* while the disk holds no file of the key.
C19_Witness ==
    /\ hist.stage = "got" /\ hist.failed /\ hist.gen = 2
    /\ ret.op = "Get" /\ ret.found /\ ret.id = index[KeyA]
    /\ EntryOf(KeyA).Generation = 2
    /\ ~StorageExists(KeyA)
    /\ pending = {}

\* The writes to the files of a key that goroutines of earlier Set calls have
\* still to do
PendingOn(cacheKey) == {w \in pending : w.key = cacheKey}

\* C29: a SetSync that returns has done its disk write: when the write did not
\* fail and no write of an earlier Set on the key was outstanding, Exists is
\* true and ReadHTML gives the content passed as soon as the call has
\* returned.  A Set returns with the files as they were and its write left to
\* a goroutine.
C29_SetSyncWritesBeforeReturn ==
    [][ LET file == getCacheFileName(ret'.key) IN
        /\ ret'.op = "SetSync" /\ ~hist'.failed /\ PendingOn(ret'.key) = {} =>
            /\ brFile'[file] # Absent
            /\ htmlFile'[file] = <<hist'.content>>
            /\ pending' = pending
        /\ ret'.op = "Set" =>
            /\ brFile' = brFile /\ htmlFile' = htmlFile
            /\ \E w \in pending' : w.key = ret'.key /\ w.html = hist'.content
      ]_vars

\* SetSync has returned on a key that an earlier call had stored with other
\* content: the files hold the content of the SetSync.
C29_Witness ==
    /\ ret.op = "SetSync"
    /\ ~hist.failed
    /\ pending = {}
    /\ EntryOf(KeyA).Generation = 2
    /\ StorageReadHTML(KeyA, FALSE) = <<hist.content>>
    /\ hist.content = <<"b">>

\* A further witness: Set has returned and the key has no file yet.
C29_WitnessSet ==
    /\ ret.op = "Set"
    /\ PendingOn(KeyA) # {}
    /\ ~StorageExists(KeyA)

-----------------------------------------------------------------------------
(* SpecCodec: CompressBrotli and DecompressBrotli on payloads of up to      *)
(* MaxPayload bytes, one of which is the byte the frame starts with, and    *)
(* Set and SetSync of such payloads on one key, with a compression that     *)
(* succeeds or fails.  hist: the payload, how far the calls have come, and  *)
(* for the last Set or SetSync whether its compression failed and how its    *)
(* disk write went.                                                          *)

RECURSIVE SeqsUpTo(_, _)
\* The sequences over an alphabet of at most n elements
SeqsUpTo(alphabet, n) ==
    IF n = 0 THEN {<<>>}
    ELSE LET shorter == SeqsUpTo(alphabet, n - 1) IN
         shorter \cup {Append(q, x) : q \in shorter, x \in alphabet}

CodecPayloads == SeqsUpTo({"a", "b", BrotliFrame}, MaxPayload)

InitCodec ==
    /\ InitManager
    /\ \E payload \in CodecPayloads :
            hist = [payload |-> payload, stage |-> "start", cfail |-> FALSE,
                    outcome |-> "none"]

NextCodec ==
    \/ /\ hist.stage = "start"
       /\ ret' = [op |-> "CompressBrotli", val |-> CompressBrotli(hist.payload)]
       /\ hist' = [hist EXCEPT !.stage = "compressed"]
       /\ UNCHANGED <<clock, memVars, diskVars, bgVars, threads, warm, reval, rv, mu>>
    \/ /\ hist.stage = "compressed"
       /\ ret' = [op |-> "DecompressBrotli", val |-> DecompressBrotli(ret.val)]
       /\ hist' = [hist EXCEPT !.stage = "decompressed"]
       /\ UNCHANGED <<clock, memVars, diskVars, bgVars, threads, warm, reval, rv, mu>>
    \/ \E cfail \in BOOLEAN :
            /\ hist.stage \in {"start", "set"}
            /\ Set(KeyA, hist.payload, "static", <<>>, cfail)
            /\ hist' = [hist EXCEPT !.stage = "set", !.cfail = cfail,
                                    !.outcome = "none"]
            /\ UNCHANGED <<warm, reval, rv, mu>>
    \/ \E cfail \in BOOLEAN, outcome \in WriteOutcomes :
            /\ hist.stage \in {"start", "set"}
            /\ SetSync(KeyA, hist.payload, "static", <<>>, cfail, outcome)
            /\ hist' = [hist EXCEPT !.stage = "set", !.cfail = cfail,
                                    !.outcome = outcome]
            /\ UNCHANGED <<warm, reval, rv, mu>>
    \/ \E w \in pending, outcome \in WriteOutcomes :
            writeFunc(w, outcome) /\ UNCHANGED <<warm, reval, rv, mu, hist>>

SpecCodec == InitCodec /\ [][NextCodec]_vars

C21_WitnessSet ==
    /\ hist.stage = "set" /\ ~hist.cfail
    /\ hist.payload # <<>>
    /\ EntryOf(KeyA).Generation = 2
    /\ GetDecompressedContent(EntryOf(KeyA)) = hist.payload

\* C31: a Set or SetSync whose compression failed returns no error; its Entry,
\* created or updated, holds the bytes passed as they are; a SetSync whose
\* write went through has left these bytes in the .br file and in the .html
\* file, and a Set has left the write of these bytes to both files to its
\* goroutine.
C31_CompressionFailureFallsBack ==
    hist.stage = "set" /\ hist.cfail /\ ret.op \in {"Set", "SetSync"} =>
        /\ ~ret.err
        /\ index[KeyA] # 0
        /\ EntryOf(KeyA).Content = hist.payload
        /\ ~EntryOf(KeyA).stale
        /\ ret.op = "SetSync" /\ hist.outcome = "ok" =>
                /\ StorageReadBrotli(KeyA, FALSE) = <<hist.payload>>
                /\ StorageReadHTML(KeyA, FALSE) = <<hist.payload>>
        /\ ret.op = "Set" =>
                [key |-> KeyA, br |-> hist.payload, html |-> hist.payload]
                    \in pending

\* A SetSync whose compression failed has updated an Entry that held the
\* compressed payload, and both files hold the payload as it was passed.
C31_Witness ==
    /\ hist.stage = "set" /\ hist.cfail /\ hist.outcome = "ok"
    /\ ret.op = "SetSync"
    /\ Len(hist.payload) = MaxPayload
    /\ EntryOf(KeyA).Generation = 2
    /\ EntryOf(KeyA).Content = hist.payload
    /\ StorageReadBrotli(KeyA, FALSE) = <<hist.payload>>

\* A further witness: a Set whose compression failed has returned and its
\* write is outstanding.
C31_WitnessSet ==
    /\ hist.stage = "set" /\ hist.cfail
    /\ ret.op = "Set"
    /\ hist.payload # <<>>
    /\ ~StorageExists(KeyA)

-----------------------------------------------------------------------------
(* SpecFiles: Storage.Write and Storage.Delete on three keys, the keys of   *)
(* the routes "/a/b", "/a_b" and "/c" in one language.  hist: the key of    *)
(* the last call, and what Exists, ReadBrotli and ReadHTML answered for     *)
(* every key before it.                                                     *)

StoreKeys ==
    {GetCacheKey(<<"/", "a", "/", "b">>, <<"e">>),
     GetCacheKey(<<"/", "a", "_", "b">>, <<"e">>),
     GetCacheKey(<<"/", "c">>, <<"e">>)}

StoreFiles == {getCacheFileName(k) : k \in StoreKeys}

\* What Storage answers for a key: Exists, ReadBrotli, ReadHTML
StorageView(cacheKey) ==
    [exists |-> StorageExists(cacheKey),
     br     |-> StorageReadBrotli(cacheKey, FALSE),
     html   |-> StorageReadHTML(cacheKey, FALSE)]

StorageViews == [k \in StoreKeys |-> StorageView(k)]

\* Storage.Write(cacheKey, compressedContent, uncompressedContent)
StorageWrite(cacheKey, uncompressedContent, outcome) ==
    /\ brFile' = StorageWriteBr(brFile, cacheKey,
                                CompressBrotli(uncompressedContent), outcome)
    /\ htmlFile' = StorageWriteHtml(htmlFile, cacheKey, uncompressedContent,
                                    outcome)
    /\ ret' = [op |-> "Write", key |-> cacheKey, err |-> outcome # "ok"]
    /\ UNCHANGED <<clock, memVars, bgVars, threads>>

\* Storage.Delete(cacheKey)
StorageDeleteFiles(cacheKey) ==
    /\ brFile' = StorageDelete(brFile, cacheKey)
    /\ htmlFile' = StorageDelete(htmlFile, cacheKey)
    /\ ret' = [op |-> "Delete", key |-> cacheKey, err |-> FALSE]
    /\ UNCHANGED <<clock, memVars, bgVars, threads>>

InitFiles ==
    /\ clock = 0
    /\ index = [k \in StoreKeys |-> 0]
    /\ heap = EmptyHeap
    /\ brFile = [f \in StoreFiles |-> Absent]
    /\ htmlFile = [f \in StoreFiles |-> Absent]
    /\ pending = {}
    /\ passes = {}
    /\ router = FALSE
    /\ threads = AllIdle
    /\ warm = NoCall
    /\ reval = NoCall
    /\ rv = NoCall
    /\ mu = Unlocked
    /\ ret = NoCall
    /\ hist = [key |-> <<>>, before |-> StorageViews]

NextFiles ==
    \/ \E k \in StoreKeys, c \in Payloads, outcome \in WriteOutcomes :
            /\ StorageWrite(k, c, outcome)
            /\ hist' = [key |-> k, before |-> StorageViews]
            /\ UNCHANGED <<warm, reval, rv, mu>>
    \/ \E k \in StoreKeys :
            /\ StorageDeleteFiles(k)
            /\ hist' = [key |-> k, before |-> StorageViews]
            /\ UNCHANGED <<warm, reval, rv, mu>>

SpecFiles == InitFiles /\ [][NextFiles]_vars

\* C22: a Storage.Write or Storage.Delete on one key leaves what Exists,
\* ReadBrotli and ReadHTML answer for every other key as it was (as it must
\* when no two keys have the same file name).
C22_KeysHaveFilesOfTheirOwn ==
    \A k \in StoreKeys :
        k # hist.key => StorageView(k) = hist.before[k]


-----------------------------------------------------------------------------
(* SpecEager: one run of the goroutine `go m.eagerRevalidate(staleEntries)`, *)
(* step by step, over entries that MarkStale has just marked.  The          *)
(* goroutines it starts for the entries differ only in the request path     *)
(* they were given and in where they are, so the run counts them by path:   *)
(* `waiting` at the send to the semaphore channel, `serving` inside          *)
(* router.ServeHTTP; `counted` of them are past the increment of a counter  *)
(* and before the deferred receive.  The router is the http.Handler bound   *)
(* with SetRouter; it answers with a status and does not call the Manager.  *)
(* hist: the requests the router has served, by path, and how many of them  *)
(* it answered with 200.                                                    *)

\* The request paths of the entries
EagerPaths == {<<>>, <<"/", "p">>, <<"/", "q">>}

\* The entry.RequestPath of n entries: `empty` entries without a request
\* path, then entries with one
EagerEntries(n, empty) ==
    [i \in 1..n |-> IF i <= empty THEN <<>> ELSE <<"/", "p">>]

\* No goroutine for any path
NoGoroutines == [path \in EagerPaths |-> 0]

Total(count) ==
    count[<<>>] + count[<<"/", "p">>] + count[<<"/", "q">>]

\* go m.eagerRevalidate(staleEntries): MarkStale hands over the entries it
\* marked, a list that is not empty
StartEager(entries) ==
    [op |-> "eagerRevalidate", entries |-> entries, pc |-> "start", next |-> 1,
     waiting |-> NoGoroutines, serving |-> NoGoroutines, counted |-> 0,
     finished |-> 0, successCount |-> 0, errorCount |-> 0]

\* if m.router == nil { return }; otherwise the counters and the semaphore
EagerCheckRouter ==
    /\ reval # NoCall
    /\ reval.pc = "start"
    /\ reval' = [reval EXCEPT !.pc = IF router THEN "loop" ELSE "returned"]
    /\ ret' = IF router THEN ret
              ELSE [op |-> "eagerRevalidate", total |-> 0, success |-> 0,
                    errors |-> 0]
    /\ UNCHANGED <<clock, memVars, diskVars, bgVars, threads, warm, rv, mu>>

\* The mutant of EagerSpawn: the loop ends at an entry without a request path
EagerSpawnUntilEmpty ==
    LET reqPath == heap[reval.entries[reval.next]].RequestPath IN
    /\ reval # NoCall
    /\ reval.pc = "loop"
    /\ reval.next <= Len(reval.entries)
    /\ reval' = IF reqPath = <<>>
                THEN [reval EXCEPT !.next = Len(reval.entries) + 1]
                ELSE [reval EXCEPT !.next = @ + 1, !.waiting[reqPath] = @ + 1]
    /\ UNCHANGED <<clock, memVars, diskVars, bgVars, threads, warm, ret, rv, mu>>

\* One turn of `for _, entry := range entries`: an entry without a request
\* path is skipped, for any other wg.Add(1) and a goroutine that is given
\* entry.RequestPath
EagerSpawn ==
    LET reqPath == heap[reval.entries[reval.next]].RequestPath IN
    /\ reval # NoCall
    /\ reval.pc = "loop"
    /\ reval.next <= Len(reval.entries)
    /\ reval' = IF reqPath = <<>>
                THEN [reval EXCEPT !.next = @ + 1]
                ELSE [reval EXCEPT !.next = @ + 1, !.waiting[reqPath] = @ + 1]
    /\ UNCHANGED <<clock, memVars, diskVars, bgVars, threads, warm, ret, rv, mu>>

\* The goroutines between `semaphore <- struct{}{}` and `<-semaphore`
OnSemaphore == Total(reval.serving) + reval.counted

\* The mutant of SemaphoreAcquire: a send that never blocks
SemaphoreAcquireUnbuffered(reqPath) ==
    /\ reval # NoCall
    /\ reval.waiting[reqPath] > 0
    /\ reval' = [reval EXCEPT !.waiting[reqPath] = @ - 1,
                              !.serving[reqPath] = @ + 1]
    /\ UNCHANGED <<clock, memVars, diskVars, bgVars, threads, warm, ret, rv, mu>>

\* semaphore <- struct{}{}: blocks while the channel holds semaphoreCapacity
\* values; then the goroutine builds its request and calls router.ServeHTTP
SemaphoreAcquire(reqPath) ==
    /\ reval # NoCall
    /\ reval.waiting[reqPath] > 0
    /\ OnSemaphore < semaphoreCapacity
    /\ reval' = [reval EXCEPT !.waiting[reqPath] = @ - 1,
                              !.serving[reqPath] = @ + 1]
    /\ UNCHANGED <<clock, memVars, diskVars, bgVars, threads, warm, ret, rv, mu>>

\* What `n++` leaves in a counter that other goroutines increment at the same
\* time without a lock: the increment of any value the counter has had
RacyIncrement(n) ==
    IF OnSemaphore > 1 THEN 1..(n + 1) ELSE {n + 1}

\* The mutant of EagerServe: a pass that marks what it re-rendered fresh
EagerServeMarkingFresh(reqPath, status) ==
    /\ reval # NoCall
    /\ reval.serving[reqPath] > 0
    /\ reval' = [reval EXCEPT
                     !.serving[reqPath] = @ - 1,
                     !.counted = @ + 1,
                     !.successCount = IF status = StatusOK THEN @ + 1 ELSE @,
                     !.errorCount = IF status = StatusOK THEN @ ELSE @ + 1]
    /\ heap' = [id \in DOMAIN heap |->
                    IF heap[id].RequestPath = reqPath /\ status = StatusOK
                    THEN MarkFresh(heap[id]) ELSE heap[id]]
    /\ UNCHANGED <<clock, index, diskVars, bgVars, threads, warm, ret, rv, mu>>

\* router.ServeHTTP(rec, req) for the GET of reqPath returns with
\* rec.Code = status; successCount++ or errorCount++
EagerServe(reqPath, status) ==
    /\ reval # NoCall
    /\ reval.serving[reqPath] > 0
    /\ \E n \in RacyIncrement(IF status = StatusOK THEN reval.successCount
                              ELSE reval.errorCount) :
         reval' = [reval EXCEPT
                     !.serving[reqPath] = @ - 1,
                     !.counted = @ + 1,
                     !.successCount = IF status = StatusOK THEN n ELSE @,
                     !.errorCount = IF status = StatusOK THEN @ ELSE n]
    /\ UNCHANGED <<clock, memVars, diskVars, bgVars, threads, warm, ret, rv, mu>>

\* The deferred calls of the goroutine: <-semaphore, then wg.Done()
SemaphoreRelease ==
    /\ reval # NoCall
    /\ reval.counted > 0
    /\ reval' = [reval EXCEPT !.counted = @ - 1, !.finished = @ + 1]
    /\ UNCHANGED <<clock, memVars, diskVars, bgVars, threads, warm, ret, rv, mu>>

\* wg.Wait() returns after the loop, when every goroutine called wg.Done();
\* the statistics are logged
EagerWait ==
    /\ reval # NoCall
    /\ reval.pc = "loop"
    /\ reval.next > Len(reval.entries)
    /\ Total(reval.waiting) + OnSemaphore = 0
    /\ reval' = [reval EXCEPT !.pc = "returned"]
    /\ ret' = [op |-> "eagerRevalidate", total |-> Len(reval.entries),
               success |-> reval.successCount, errors |-> reval.errorCount]
    /\ UNCHANGED <<clock, memVars, diskVars, bgVars, threads, warm, rv, mu>>

\* The passes: one entry, as many as the semaphore holds and one more, two
\* more of which one has no request path, and three entries of which the
\* second has no request path and the others have paths of their own
EagerPasses ==
    {EagerEntries(1, 0), EagerEntries(semaphoreCapacity + 1, 0),
     EagerEntries(semaphoreCapacity + 2, 1),
     <<<<"/", "p">>, <<>>, <<"/", "q">>>>}

\* The cache key of the i-th entry
EagerKey(i) == GetCacheKey(<<"/">> \o Itoa(i), <<"e">>)

\* A Manager whose entries, all incremental and with the request paths of a
\* pass, were marked by MarkStale("incremental", true), with or without a
\* router
InitEager ==
    /\ clock = 0
    /\ \E paths \in EagerPasses :
        /\ index = [k \in {EagerKey(i) : i \in DOMAIN paths} |->
                        CHOOSE i \in DOMAIN paths : EagerKey(i) = k]
        /\ heap = [i \in DOMAIN paths |->
                        MarkStale(NewEntry(CompressBrotli(<<"a">>), "incremental",
                                           paths[i], 0))]
        /\ reval = StartEager([i \in DOMAIN paths |-> i])
    /\ brFile = EmptyDisk
    /\ htmlFile = EmptyDisk
    /\ pending = {}
    /\ passes = {}
    /\ router \in BOOLEAN
    /\ threads = AllIdle
    /\ warm = NoCall
    /\ rv = NoCall
    /\ mu = Unlocked
    /\ ret = NoCall
    /\ hist = [requests |-> NoGoroutines, ok |-> 0]

\* The router has served one more request for the path
Served(reqPath, status) ==
    [requests |-> [hist.requests EXCEPT ![reqPath] = @ + 1],
     ok |-> IF status = StatusOK THEN hist.ok + 1 ELSE hist.ok]

NextEager ==
    \/ EagerCheckRouter /\ UNCHANGED hist
    \/ EagerSpawn /\ UNCHANGED hist
    \/ \E reqPath \in EagerPaths : SemaphoreAcquire(reqPath) /\ UNCHANGED hist
    \/ \E reqPath \in EagerPaths, status \in {StatusOK, 500} :
            EagerServe(reqPath, status) /\ hist' = Served(reqPath, status)
    \/ SemaphoreRelease /\ UNCHANGED hist
    \/ EagerWait /\ UNCHANGED hist

SpecEager == InitEager /\ [][NextEager]_vars

\* C23: while an eager revalidation pass runs, at most ten of its requests
\* are inside router.ServeHTTP at any moment, however many entries the pass
\* was handed.
C23_AtMostTenServed ==
    reval # NoCall => Total(reval.serving) <= semaphoreCapacity

\* A pass of more than ten entries has ten requests inside the router and a
\* goroutine waiting for the semaphore.
C23_Witness ==
    /\ reval # NoCall
    /\ Len(reval.entries) > semaphoreCapacity
    /\ Total(reval.serving) = semaphoreCapacity
    /\ Total(reval.waiting) > 0

\* The entries of the pass that have the request path
WithPath(reqPath) ==
    {i \in DOMAIN reval.entries : heap[reval.entries[i]].RequestPath = reqPath}

\* C34: in a pass with a router the router serves at most one request per
\* entry that has a request path, and when the pass is over it has served for
\* every path as many requests as entries have that path, whether or not
\* entries without a request path came before them; for such entries it
\* serves nothing.
C34_OneRequestPerEntry ==
    reval # NoCall =>
        /\ hist.requests[<<>>] = 0
        /\ \A reqPath \in EagerPaths \ {<<>>} :
                /\ hist.requests[reqPath] <= Cardinality(WithPath(reqPath))
                /\ reval.pc = "returned" /\ router =>
                        hist.requests[reqPath] = Cardinality(WithPath(reqPath))

\* A pass over an entry with one path, an entry without a path and an entry
\* with another path is over; the router has served one request for each of
\* the two paths.
C34_Witness ==
    /\ reval # NoCall
    /\ reval.pc = "returned"
    /\ router
    /\ Len(reval.entries) = 3
    /\ heap[reval.entries[2]].RequestPath = <<>>
    /\ hist.requests[<<"/", "p">>] = 1
    /\ hist.requests[<<"/", "q">>] = 1

\* C35: a pass changes no Entry, no key of the index and no file: when it is
\* over, whatever the router answered, every entry handed over is stale and
\* has the content, generation and ETag it had when it was marked.
C35_PassStoresNothing ==
    /\ [][ /\ heap' = heap /\ index' = index
           /\ brFile' = brFile /\ htmlFile' = htmlFile ]_vars
    /\ [](reval # NoCall /\ reval.pc = "returned" =>
            \A i \in DOMAIN reval.entries :
                LET e == heap[reval.entries[i]] IN
                /\ e.stale
                /\ e.Generation = 1
                /\ e.Content = CompressBrotli(<<"a">>)
                /\ e.ETag = generateETag(e.Content, 1, 0))

\* A pass with a router is over, every request was answered with 200, and
\* the entries are stale.
C35_Witness ==
    /\ reval # NoCall
    /\ reval.pc = "returned"
    /\ router
    /\ Len(reval.entries) > semaphoreCapacity
    /\ hist.ok = Total(hist.requests)
    /\ hist.ok = semaphoreCapacity + 1
    /\ \A i \in DOMAIN reval.entries : heap[reval.entries[i]].stale

\* C36: the statistics of a pass are reported when every goroutine it started
\* has returned; the successes and the errors reported add up to the requests
\* made, and the successes are the requests answered with 200.
C36_StatisticsAddUp ==
    reval # NoCall /\ reval.pc = "returned" /\ router =>
        /\ Total(reval.waiting) + OnSemaphore = 0
        /\ ret.success + ret.errors = Total(hist.requests)
        /\ ret.success = hist.ok



-----------------------------------------------------------------------------
(* SpecRv: the Revalidator.  Local time is the clock itself: second 0 is a  *)
(* local midnight and every local day has TwentyFourHours seconds (a zone   *)
(* whose offset does not change).  A timer that is due acts before time     *)
(* moves on: time.Sleep returns, the ticker sends, the goroutine receives   *)
(* at the instant they are due.                                             *)

\* time.Date(now.Year(), now.Month(), now.Day(), 0, 0, 0, 0, now.Location())
StartOfDay(now) == now - (now % TwentyFourHours)

\* The mutant of FirstRun: today's run, passed or not
FirstRunToday(now, revalidationHour) ==
    StartOfDay(now) + revalidationHour * SecondsPerHour

\* Start: next := today at revalidationHour; if next.Before(now), a day later
FirstRun(now, revalidationHour) ==
    LET next == StartOfDay(now) + revalidationHour * SecondsPerHour IN
    IF next < now THEN next + TwentyFourHours ELSE next

\* NewRevalidator: no ticker, the done channel open
NewRevalidator ==
    [started |-> FALSE, done |-> "open", pc |-> "none"]

\* Start(revalidationHour): the ticker is created here, the goroutine sleeps
\* initialDelay = time.Until(next); a delay that is not positive is no sleep
RvStart(revalidationHour) ==
    /\ ~rv.started
    /\ rv' = [started |-> TRUE, done |-> rv.done, pc |-> "sleep",
              hour |-> revalidationHour, startedAt |-> clock,
              wakeAt |-> IF FirstRun(clock, revalidationHour) > clock
                         THEN FirstRun(clock, revalidationHour) ELSE clock,
              tickerRunning |-> TRUE, tickAt |-> clock + TwentyFourHours,
              C |-> 0]
    /\ ret' = [op |-> "Start", hour |-> revalidationHour]
    /\ UNCHANGED <<clock, memVars, diskVars, bgVars, threads, warm, reval, mu>>

\* rv.revalidateIncremental(): one call of MarkStale("incremental", true)
revalidateIncremental == ManagerMarkStale("incremental", TRUE)

\* time.Sleep(initialDelay) returns; the first revalidation
RvFirstRun ==
    /\ rv.started
    /\ rv.pc = "sleep"
    /\ clock >= rv.wakeAt
    /\ revalidateIncremental
    /\ rv' = [rv EXCEPT !.pc = "select"]
    /\ UNCHANGED <<warm, reval, mu>>

\* The ticker is due: it sends on rv.ticker.C, a channel that holds one value,
\* and drops the tick when the channel is full
TickerSend ==
    /\ rv.started
    /\ rv.tickerRunning
    /\ clock >= rv.tickAt
    /\ rv' = [rv EXCEPT !.C = 1, !.tickAt = @ + TwentyFourHours]
    /\ UNCHANGED <<clock, memVars, diskVars, bgVars, threads, warm, reval, mu, ret>>

\* select, case <-rv.ticker.C
RvSelectTick ==
    /\ rv.started
    /\ rv.pc = "select"
    /\ rv.C = 1
    /\ revalidateIncremental
    /\ rv' = [rv EXCEPT !.C = 0]
    /\ UNCHANGED <<warm, reval, mu>>

\* select, case <-rv.done: the goroutine returns.  When both channels are
\* ready select takes either case.
RvSelectDone ==
    /\ rv.started
    /\ rv.pc = "select"
    /\ rv.done = "closed"
    /\ rv' = [rv EXCEPT !.pc = "exited"]
    /\ ret' = [op |-> "exit"]
    /\ UNCHANGED <<clock, memVars, diskVars, bgVars, threads, warm, reval, mu>>

\* Stop(): rv.ticker.Stop() ends the sending and leaves the channel as it is;
\* close(rv.done).  A second close panics: Stop is called once.
RvStop ==
    /\ rv.started
    /\ rv.done = "open"
    /\ rv' = [rv EXCEPT !.tickerRunning = FALSE, !.done = "closed"]
    /\ ret' = [op |-> "Stop"]
    /\ UNCHANGED <<clock, memVars, diskVars, bgVars, threads, warm, reval, mu>>

\* What is due now
Due ==
    /\ rv.started
    /\ \/ rv.pc = "sleep" /\ clock >= rv.wakeAt
       \/ rv.tickerRunning /\ clock >= rv.tickAt
       \/ rv.pc = "select" /\ (rv.C = 1 \/ rv.done = "closed")

\* The instants at which something becomes due
Deadlines ==
    IF ~rv.started THEN {}
    ELSE (IF rv.pc = "sleep" THEN {rv.wakeAt} ELSE {})
            \cup (IF rv.tickerRunning THEN {rv.tickAt} ELSE {})

\* Time passes, up to the next deadline
RvTick(t) ==
    /\ ~Due
    /\ \A d \in Deadlines : t <= d
    /\ Tick(t)
    /\ UNCHANGED <<warm, reval, rv, mu>>

\* The hours given to Start, and the local times of day the clock visits
RvHours == {0, 3, 23}
TimesOfDay ==
    {0, 1, 3 * SecondsPerHour, 3 * SecondsPerHour + 1, 12 * SecondsPerHour,
     23 * SecondsPerHour, 23 * SecondsPerHour + 1}
RvTimes == {d * TwentyFourHours + s : d \in 0..MaxRvDays, s \in TimesOfDay}

\* A Manager that holds one incremental entry or none; the Revalidator is
\* constructed on some instant of the first day
InitRv ==
    /\ clock \in {t \in RvTimes : t < TwentyFourHours}
    /\ \E held \in BOOLEAN :
        /\ index = IF held THEN [EmptyIndex EXCEPT ![KeyA] = 1] ELSE EmptyIndex
        /\ heap = IF held
                  THEN [EmptyHeap EXCEPT ![1] =
                          NewEntry(CompressBrotli(<<"a">>), "incremental",
                                   <<"/", "p">>, 0)]
                  ELSE EmptyHeap
    /\ brFile = EmptyDisk
    /\ htmlFile = EmptyDisk
    /\ pending = {}
    /\ passes = {}
    /\ router = TRUE
    /\ threads = AllIdle
    /\ warm = NoCall
    /\ reval = NoCall
    /\ rv = NewRevalidator
    /\ mu = Unlocked
    /\ ret = NoCall
    /\ hist = [firings |-> <<>>, marks |-> <<>>, afterStop |-> 0]

\* hist.firings: the instants of the revalidations; hist.marks: the MarkStale
\* calls made; hist.afterStop: the revalidations that began after Stop returned
Fired ==
    [firings |-> Append(hist.firings, clock),
     marks |-> Append(hist.marks, <<ret'.op, ret'.strategy, ret'.eager>>),
     afterStop |-> IF rv.done = "closed" THEN hist.afterStop + 1
                   ELSE hist.afterStop]

NextRv ==
    \/ \E h \in RvHours : RvStart(h) /\ UNCHANGED hist
    \/ RvFirstRun /\ hist' = Fired
    \/ TickerSend /\ UNCHANGED hist
    \/ RvSelectTick /\ hist' = Fired
    \/ RvSelectDone /\ UNCHANGED hist
    \/ RvStop /\ UNCHANGED hist
    \/ \E pass \in passes : eagerRevalidate(pass) /\ UNCHANGED <<warm, reval, rv, mu, hist>>
    \/ \E t \in RvTimes : RvTick(t) /\ UNCHANGED hist

SpecRv == InitRv /\ [][NextRv]_vars

\* The instants that are hour h of some local day
Occurrences(h) ==
    {d * TwentyFourHours + h * SecondsPerHour : d \in 0..(MaxRvDays + 1)}

\* The next occurrence of hour h at or after the instant t
NextOccurrence(t, h) ==
    CHOOSE o \in Occurrences(h) :
        /\ o >= t
        /\ \A u \in Occurrences(h) : u >= t => o <= u

\* C24: Start(h) schedules the first revalidation at the next occurrence of
\* hour h, today when h:00 has not passed at the call and tomorrow otherwise;
\* no revalidation happens before that instant, the first happens at it, and
\* every revalidation is one call of MarkStale("incremental", true).
C24_FirstRunAtNextOccurrence ==
    rv.started =>
        /\ rv.wakeAt = NextOccurrence(rv.startedAt, rv.hour)
        /\ rv.wakeAt - rv.startedAt < TwentyFourHours
        /\ \A i \in DOMAIN hist.firings : hist.firings[i] >= rv.wakeAt
        /\ hist.firings # <<>> => hist.firings[1] = rv.wakeAt
        /\ clock > rv.wakeAt => hist.firings # <<>>
        /\ Len(hist.marks) = Len(hist.firings)
        /\ \A i \in DOMAIN hist.marks :
                hist.marks[i] = <<"MarkStale", "incremental", TRUE>>

\* Started after today's hour had passed, the Revalidator has made its first
\* revalidation on the next day.
C24_Witness ==
    /\ rv.started
    /\ rv.startedAt > StartOfDay(rv.startedAt) + rv.hour * SecondsPerHour
    /\ Len(hist.firings) = 1
    /\ hist.firings[1] = StartOfDay(rv.startedAt) + TwentyFourHours
                            + rv.hour * SecondsPerHour

\* A further witness: started before today's hour, the first revalidation has
\* happened on the same day.
C24_WitnessToday ==
    /\ rv.started
    /\ rv.startedAt < StartOfDay(rv.startedAt) + rv.hour * SecondsPerHour
    /\ Len(hist.firings) = 1
    /\ hist.firings[1] < TwentyFourHours


\* C25: the revalidations recur every 24 hours counted from the first one, so
\* that each of them, and not only the first, falls on the hour given to Start.
C25_EveryRunOnTheHour ==
    rv.started =>
        /\ \A i \in DOMAIN hist.firings :
                hist.firings[i] % TwentyFourHours = rv.hour * SecondsPerHour
        /\ \A i \in DOMAIN hist.firings :
                i > 1 => hist.firings[i] = hist.firings[i - 1] + TwentyFourHours

\* C26: once Stop has returned on a started Revalidator no revalidation begins
\* any more, whether Stop came before the first scheduled run or while a tick
\* was waiting on the ticker's channel.
C26_NoRunAfterStop ==
    hist.afterStop = 0


-----------------------------------------------------------------------------
(* SpecLock: three goroutines call Write, Delete, ReadBrotli, ReadHTML and  *)
(* Exists on one Storage, step by step: taking Storage.mu, each access to a *)
(* file, releasing Storage.mu.  `threads` holds for each goroutine the call *)
(* it is in and where it is.                                                *)

Callers == {"g1", "g2", "g3"}

StorageWrites == {"Write", "Delete"}
StorageReads == {"ReadBrotli", "ReadHTML", "Exists"}

\* A goroutine outside Storage
Outside ==
    [pc |-> "idle", op |-> "none", content |-> <<>>, val |-> <<>>,
     err |-> FALSE]

\* The call: Write and Delete go to s.mu.Lock(), the others to s.mu.RLock()
StorageCall(c, op, content) ==
    /\ threads[c].pc = "idle"
    /\ threads' = [threads EXCEPT ![c] =
                     [pc |-> IF op \in StorageWrites THEN "Lock" ELSE "RLock",
                      op |-> op, content |-> content, val |-> <<>>,
                      err |-> FALSE]]
    /\ mu' = IF op \in StorageWrites
             THEN [mu EXCEPT !.waiting = @ \cup {c}]
             ELSE mu
    /\ UNCHANGED <<clock, memVars, diskVars, bgVars, warm, reval, rv, ret>>

\* The mutant of MuLock: a lock that does not wait for the readers
MuLockOverReaders(c) ==
    /\ threads[c].pc = "Lock"
    /\ mu.writer = {}
    /\ mu' = [mu EXCEPT !.writer = {c}, !.waiting = @ \ {c}]
    /\ threads' = [threads EXCEPT ![c].pc = "first"]
    /\ UNCHANGED <<clock, memVars, diskVars, bgVars, warm, reval, rv, ret>>

\* s.mu.Lock() returns: no goroutine holds the mutex, for writing or reading
MuLock(c) ==
    /\ threads[c].pc = "Lock"
    /\ mu.writer = {}
    /\ mu.readers = {}
    /\ mu' = [mu EXCEPT !.writer = {c}, !.waiting = @ \ {c}]
    /\ threads' = [threads EXCEPT ![c].pc = "first"]
    /\ UNCHANGED <<clock, memVars, diskVars, bgVars, warm, reval, rv, ret>>

\* s.mu.RLock() returns: no goroutine holds the mutex for writing, and none
\* waits in Lock (a waiting writer keeps new readers out)
MuRLock(c) ==
    /\ threads[c].pc = "RLock"
    /\ mu.writer = {}
    /\ mu.waiting = {}
    /\ mu' = [mu EXCEPT !.readers = @ \cup {c}]
    /\ threads' = [threads EXCEPT ![c].pc = "first"]
    /\ UNCHANGED <<clock, memVars, diskVars, bgVars, warm, reval, rv, ret>>

\* Write: os.WriteFile of the .br file; on an error the call is over
WriteBr(c, failed) ==
    /\ threads[c].pc = "first"
    /\ threads[c].op = "Write"
    /\ brFile' = StorageWriteBr(brFile, KeyA, CompressBrotli(threads[c].content),
                                IF failed THEN "brfail" ELSE "ok")
    /\ threads' = [threads EXCEPT ![c].pc = IF failed THEN "Unlock" ELSE "second",
                                  ![c].err = failed]
    /\ UNCHANGED <<clock, memVars, htmlFile, bgVars, warm, reval, rv, mu, ret>>

\* Write: os.WriteFile of the .html file
WriteHtml(c, failed) ==
    /\ threads[c].pc = "second"
    /\ threads[c].op = "Write"
    /\ htmlFile' = StorageWriteHtml(htmlFile, KeyA, threads[c].content,
                                    IF failed THEN "htmlfail" ELSE "ok")
    /\ threads' = [threads EXCEPT ![c].pc = "Unlock", ![c].err = failed]
    /\ UNCHANGED <<clock, memVars, brFile, bgVars, warm, reval, rv, mu, ret>>

\* Delete: os.Remove(brPath)
RemoveBr(c) ==
    /\ threads[c].pc = "first"
    /\ threads[c].op = "Delete"
    /\ brFile' = StorageDelete(brFile, KeyA)
    /\ threads' = [threads EXCEPT ![c].pc = "second"]
    /\ UNCHANGED <<clock, memVars, htmlFile, bgVars, warm, reval, rv, mu, ret>>

\* Delete: os.Remove(htmlPath)
RemoveHtml(c) ==
    /\ threads[c].pc = "second"
    /\ threads[c].op = "Delete"
    /\ htmlFile' = StorageDelete(htmlFile, KeyA)
    /\ threads' = [threads EXCEPT ![c].pc = "Unlock"]
    /\ UNCHANGED <<clock, memVars, brFile, bgVars, warm, reval, rv, mu, ret>>

\* ReadBrotli, ReadHTML: os.ReadFile; Exists: os.Stat of the .br file
ReadFile(c, rfail) ==
    /\ threads[c].pc = "first"
    /\ threads[c].op \in StorageReads
    /\ threads' = [threads EXCEPT
            ![c].pc = "RUnlock",
            ![c].val = IF threads[c].op = "ReadBrotli"
                       THEN StorageReadBrotli(KeyA, rfail)
                       ELSE IF threads[c].op = "ReadHTML"
                       THEN StorageReadHTML(KeyA, rfail)
                       ELSE IF StorageExists(KeyA) THEN <<"true">> ELSE <<>>,
            ![c].err = threads[c].op # "Exists"
                        /\ (rfail \/ (IF threads[c].op = "ReadBrotli"
                                      THEN brFile ELSE htmlFile)
                                        [getCacheFileName(KeyA)] = Absent)]
    /\ UNCHANGED <<clock, memVars, diskVars, bgVars, warm, reval, rv, mu, ret>>

\* defer s.mu.Unlock(), and the return
MuUnlock(c) ==
    /\ threads[c].pc = "Unlock"
    /\ mu' = [mu EXCEPT !.writer = @ \ {c}]
    /\ ret' = [op |-> threads[c].op, key |-> KeyA, err |-> threads[c].err]
    /\ threads' = [threads EXCEPT ![c] = Outside]
    /\ UNCHANGED <<clock, memVars, diskVars, bgVars, warm, reval, rv>>

\* defer s.mu.RUnlock(), and the return
MuRUnlock(c) ==
    /\ threads[c].pc = "RUnlock"
    /\ mu' = [mu EXCEPT !.readers = @ \ {c}]
    /\ ret' = [op |-> threads[c].op, key |-> KeyA, err |-> threads[c].err,
               val |-> threads[c].val]
    /\ threads' = [threads EXCEPT ![c] = Outside]
    /\ UNCHANGED <<clock, memVars, diskVars, bgVars, warm, reval, rv>>

InitLock ==
    /\ clock = 0
    /\ index = EmptyIndex
    /\ heap = EmptyHeap
    /\ brFile = EmptyDisk
    /\ htmlFile = EmptyDisk
    /\ pending = {}
    /\ passes = {}
    /\ router = FALSE
    /\ threads = [c \in Callers |-> Outside]
    /\ warm = NoCall
    /\ reval = NoCall
    /\ rv = NoCall
    /\ mu = Unlocked
    /\ ret = NoCall
    /\ hist = NoCall

NextLock ==
    \/ \E c \in Callers, content \in Payloads :
            StorageCall(c, "Write", content) /\ UNCHANGED hist
    \/ \E c \in Callers, op \in {"Delete"} \cup StorageReads :
            StorageCall(c, op, <<>>) /\ UNCHANGED hist
    \/ \E c \in Callers : MuLock(c) /\ UNCHANGED hist
    \/ \E c \in Callers : MuRLock(c) /\ UNCHANGED hist
    \/ \E c \in Callers, failed \in BOOLEAN : WriteBr(c, failed) /\ UNCHANGED hist
    \/ \E c \in Callers, failed \in BOOLEAN : WriteHtml(c, failed) /\ UNCHANGED hist
    \/ \E c \in Callers : RemoveBr(c) /\ UNCHANGED hist
    \/ \E c \in Callers : RemoveHtml(c) /\ UNCHANGED hist
    \/ \E c \in Callers, rfail \in BOOLEAN : ReadFile(c, rfail) /\ UNCHANGED hist
    \/ \E c \in Callers : MuUnlock(c) /\ UNCHANGED hist
    \/ \E c \in Callers : MuRUnlock(c) /\ UNCHANGED hist

SpecLock == InitLock /\ [][NextLock]_vars

\* The goroutine is between taking and releasing the mutex
InStorage(c) == threads[c].pc \in {"first", "second", "Unlock", "RUnlock"}

\* C32: while a goroutine is inside Write or Delete no other goroutine is
\* inside any operation of the same Storage, so that a ReadBrotli, ReadHTML or
\* Exists never runs between the two file accesses of a Write or a Delete;
\* only reads are inside together.
C32_WritesExcludeEverything ==
    \A c \in Callers, d \in Callers :
        c # d /\ InStorage(c) /\ InStorage(d) =>
            /\ threads[c].op \in StorageReads
            /\ threads[d].op \in StorageReads

\* One goroutine is inside Write with the .br file written and the .html file
\* not yet, a second waits in RLock and a third in Lock.
C32_Witness ==
    \E c \in Callers, d \in Callers, e \in Callers :
        /\ threads[c].op = "Write" /\ threads[c].pc = "second"
        /\ threads[d].pc = "RLock"
        /\ threads[e].pc = "Lock"
        /\ brFile[getCacheFileName(KeyA)] # Absent
        /\ htmlFile[getCacheFileName(KeyA)] = Absent

\* A further witness: two reads are inside at the same time.
C32_WitnessReaders ==
    \E c \in Callers, d \in Callers :
        /\ c # d
        /\ threads[c].pc = "first" /\ threads[c].op = "ReadBrotli"
        /\ threads[d].pc = "first" /\ threads[d].op = "Exists"

-----------------------------------------------------------------------------
(* SpecLast: two keys written with Set, each Set leaving its disk write to a *)
(* goroutine that runs whenever it runs and whose write can fail.  hist: the *)
(* bytes the last Set of each key was given (Absent before the first), and  *)
(* whether a write has failed.                                              *)

LastKeys == {KeyA, KeyB}

InitLast ==
    /\ InitManager
    /\ hist = [last |-> [k \in LastKeys |-> Absent], failed |-> FALSE]

NextLast ==
    \/ \E k \in LastKeys, c \in Payloads :
            /\ Set(k, c, "incremental", <<>>, FALSE)
            /\ hist' = [hist EXCEPT !.last[k] = <<c>>]
            /\ UNCHANGED <<warm, reval, rv, mu>>
    \/ \E w \in pending, outcome \in WriteOutcomes :
            /\ writeFunc(w, outcome)
            /\ hist' = [hist EXCEPT !.failed = @ \/ outcome # "ok"]
            /\ UNCHANGED <<warm, reval, rv, mu>>

SpecLast == InitLast /\ [][NextLast]_vars

\* C37: when every write to the disk that a Set started has been done and none
\* has failed, the .br file of each key that was set holds the content of the
\* key's Entry in memory, and its .html file holds the bytes given to the last
\* Set of the key.
C37_LastSetWinsOnDisk ==
    pending = {} /\ ~hist.failed =>
        \A k \in LastKeys :
            hist.last[k] # Absent =>
                /\ index[k] # 0
                /\ StorageReadBrotli(k, FALSE) = <<EntryOf(k).Content>>
                /\ StorageReadHTML(k, FALSE) = hist.last[k]
-----------------------------------------------------------------------------
(* SpecBoot: Bootstrap at the start of a process, with either ForceRebuild, *)
(* over a catalog of an incremental and a static route in two languages, on *)
(* a disk that is empty or holds the page of the incremental route in one   *)
(* language, left by an earlier process; after Bootstrap has returned,      *)
(* MarkStale("incremental", false).  hist: what the disk held at the start, *)
(* and whether every render and every write has succeeded.                  *)

BootCatalog ==
    << [Canonical |-> <<"/", "a">>, Strategy |-> "incremental",
        Paths |-> [l \in WarmLanguages |-> LocalPath(l, <<"a">>)]],
       [Canonical |-> <<"/", "m">>, Strategy |-> "static",
        Paths |-> [l \in WarmLanguages |-> LocalPath(l, <<"m">>)]] >>

InitBoot ==
    /\ clock = 0
    /\ index = [k \in WarmKeys |-> 0]
    /\ heap = EmptyHeap
    /\ \E seed \in {"none", "disk"} :
         /\ brFile = IF seed = "disk"
                     THEN [[f \in WarmFiles |-> Absent] EXCEPT
                            ![getCacheFileName(SeedKey)] =
                                <<CompressBrotli(SeedContent)>>]
                     ELSE [f \in WarmFiles |-> Absent]
         /\ htmlFile = IF seed = "disk"
                       THEN [[f \in WarmFiles |-> Absent] EXCEPT
                              ![getCacheFileName(SeedKey)] = <<SeedContent>>]
                       ELSE [f \in WarmFiles |-> Absent]
         /\ hist = [seed |-> seed, rendersOk |-> TRUE, writesOk |-> TRUE]
    /\ pending = {}
    /\ passes = {}
    /\ router = TRUE
    /\ threads = AllIdle
    /\ reval = NoCall
    /\ rv = NoCall
    /\ mu = Unlocked
    /\ \E f \in BOOLEAN : warm = Bootstrap(BootCatalog, WarmLanguages, f)
    /\ ret = NoCall

NextBoot ==
    \/ WorkerReceive /\ UNCHANGED hist
    \/ \E i \in DOMAIN BootCatalog, l \in WarmLanguages :
            TaskGet(i, l) /\ UNCHANGED hist
    \/ \E i \in DOMAIN BootCatalog, l \in WarmLanguages,
          status \in {StatusOK, 500} :
            /\ TaskRender(i, l, status)
            /\ hist' = [hist EXCEPT !.rendersOk = @ /\ status = StatusOK]
    \/ \E i \in DOMAIN BootCatalog, l \in WarmLanguages,
          outcome \in WriteOutcomes :
            /\ TaskSetSync(i, l, outcome)
            /\ hist' = [hist EXCEPT !.writesOk = @ /\ outcome = "ok"]
    \/ \E i \in DOMAIN BootCatalog : WorkerAdd(i) /\ UNCHANGED hist
    \/ WarmReturn /\ UNCHANGED hist
    \/ /\ warm.returned
       /\ ret.op = "Bootstrap"
       /\ ManagerMarkStale("incremental", FALSE)
       /\ UNCHANGED <<warm, reval, rv, mu, hist>>

SpecBoot == InitBoot /\ [][NextBoot]_vars

\* C38: when Bootstrap has returned and every render and every write of it
\* succeeded, every key of a route that is neither dynamic nor parameterized
\* has an Entry in memory with the strategy of its route, also when its files
\* were on the disk before the process started; after a following
\* MarkStale("incremental", .) the Entry of every key of every incremental
\* route is marked stale.
C38_BootstrapKeepsRouteStrategy ==
    warm.returned /\ hist.rendersOk /\ hist.writesOk =>
        \A i \in DOMAIN BootCatalog, l \in WarmLanguages :
            LET k == GetCacheKey(BootCatalog[i].Canonical, l) IN
            Warmable(BootCatalog[i]) =>
                /\ index[k] # 0
                /\ EntryOf(k).Strategy = BootCatalog[i].Strategy
                /\ ret.op = "MarkStale" /\ BootCatalog[i].Strategy = "incremental"
                        => EntryOf(k).stale
-----------------------------------------------------------------------------
(* CacheMiddleware: the handler that middleware.CacheMiddleware wraps       *)
(* around `next`, run from the arrival of a request to its return.  The     *)
(* request carries its method, the canonical path, language and strategy of *)
(* its context and its URL path; `next` answers with a status and a body    *)
(* and does not call the Manager.  ret keeps the request and what the       *)
(* middleware did with it: `cache` is the X-Cache header of the response,   *)
(* `next` whether next.ServeHTTP was called.                                *)

\* if rec.statusCode == http.StatusOK, taken for true whatever the status
CacheableAlways(status) == TRUE

\* if rec.statusCode == http.StatusOK
Cacheable(status) == status = StatusOK

\* next.ServeHTTP(w, r) and return
PassedOn(request) ==
    request @@ [op |-> "CacheMiddleware", cache |-> "", next |-> TRUE,
                etag |-> <<>>, served |-> request.body]

CacheMiddleware(method, canonical, lang, path, strategy, status, body, cfail) ==
    LET request == [method |-> method, canonical |-> canonical,
                    strategy |-> strategy, status |-> status, body |-> body,
                    cfail |-> cfail]
        cacheKey == GetCacheKey(canonical, lang)
        inMemory == index[cacheKey] # 0
        read == StorageReadBrotli(cacheKey, FALSE)
        onDisk == ~inMemory /\ StorageExists(cacheKey) /\ read # Absent
        entry == IF inMemory THEN heap[index[cacheKey]]
                 ELSE IF onDisk THEN loadFromDisk(read[1], clock)
                 ELSE NoEntry
        found == entry # NoEntry
    IN
    IF method # "GET" \/ canonical = <<>>
    THEN /\ ret' = PassedOn(request)
         /\ UNCHANGED <<clock, memVars, diskVars, bgVars, threads>>
    ELSE IF found /\ ~IsStale(entry)
    THEN /\ IF onDisk
            THEN /\ Live(heap) # Ids
                 /\ heap' = [heap EXCEPT ![NewId(heap, cacheKey)] = entry]
                 /\ index' = [index EXCEPT ![cacheKey] = NewId(heap, cacheKey)]
            ELSE UNCHANGED memVars
         /\ ret' = IF GetDecompressedContent(entry) = DecompressError
                   THEN PassedOn(request)
                   ELSE request @@
                        [op |-> "CacheMiddleware", cache |-> "HIT",
                         next |-> FALSE, etag |-> entry.ETag,
                         served |-> GetDecompressedContent(entry)]
         /\ UNCHANGED <<clock, diskVars, bgVars, threads>>
    ELSE IF strategy = "" \/ strategy = "dynamic"
    THEN /\ ret' = PassedOn(request)
         /\ UNCHANGED <<clock, memVars, diskVars, bgVars, threads>>
    ELSE IF Cacheable(status)
    THEN LET compressedContent == CompressOrFallBack(body, cfail) IN
         /\ setMemory(cacheKey, compressedContent, strategy, path)
         /\ pending' = pending \cup {[key |-> cacheKey, br |-> compressedContent,
                                      html |-> body]}
         /\ ret' = PassedOn(request)
         /\ UNCHANGED <<clock, diskVars, passes, router, threads>>
    ELSE /\ ret' = PassedOn(request)
         /\ UNCHANGED <<clock, memVars, diskVars, bgVars, threads>>

-----------------------------------------------------------------------------
(* SpecMw: requests for one page through the middleware, MarkAllStale, the  *)
(* goroutines of the Sets the middleware made, restarts, and time passing   *)
(* to a second more than 24 hours after the start; the compression of a     *)
(* body succeeds.  hist: the Entry of the page and the writes outstanding   *)
(* before the request that returned last.                                   *)

MwTimes == {TwentyFourHours + 1}

MwBefore == [entry |-> EntryOf(KeyA), pending |-> pending]

NoRequest == [entry |-> NoEntry, pending |-> {}]

InitMw == InitManager /\ hist = NoRequest

NextMw ==
    \/ \E method \in {"GET", "POST"}, canonical \in {<<>>, <<"/", "a">>},
          strategy \in {"", "dynamic", "incremental"},
          status \in {StatusOK, 500}, body \in Payloads :
            /\ CacheMiddleware(method, canonical, <<"e">>, <<"/", "p">>,
                               strategy, status, body, FALSE)
            /\ hist' = MwBefore
            /\ UNCHANGED <<warm, reval, rv, mu>>
    \/ ManagerMarkAllStale(FALSE) /\ hist' = NoRequest
            /\ UNCHANGED <<warm, reval, rv, mu>>
    \/ \E w \in pending : writeFunc(w, "ok") /\ hist' = NoRequest
            /\ UNCHANGED <<warm, reval, rv, mu>>
    \/ Restart(FALSE) /\ hist' = NoRequest /\ UNCHANGED <<warm, reval, rv, mu>>
    \/ \E t \in MwTimes : Tick(t) /\ hist' = NoRequest
            /\ UNCHANGED <<warm, reval, rv, mu>>

SpecMw == InitMw /\ [][NextMw]_vars

\* C39: the middleware answers a request from the cache (X-Cache: HIT) only
\* when the Entry it serves does not need revalidation: its stale flag is not
\* set, and if it is incremental it was rendered no more than 24 hours ago.
C39_HitOnlyWithoutRevalidation ==
    ret.op = "CacheMiddleware" /\ ret.cache = "HIT" =>
        ~ShouldRevalidate(EntryOf(KeyA), clock)

\* C40: a request for a page whose Entry is stale runs the wrapped handler;
\* when it is a GET with a strategy other than "" and dynamic and the handler
\* answers 200, the Entry is fresh afterwards, its generation one higher, its
\* content the body of the response, and the write to the disk is started; in
\* every other case the Entry and the outstanding writes are as before.
C40_StaleEntryIsReRendered ==
    /\ ret.op = "CacheMiddleware"
    /\ ret.canonical # <<>>
    /\ hist.entry # NoEntry
    /\ hist.entry.stale
    => /\ ret.next
       /\ IF /\ ret.method = "GET"
             /\ ret.strategy \notin {"", "dynamic"}
             /\ ret.status = StatusOK
          THEN /\ ~EntryOf(KeyA).stale
               /\ EntryOf(KeyA).Generation = hist.entry.Generation + 1
               /\ GetDecompressedContent(EntryOf(KeyA)) = ret.body
               /\ \E w \in pending : w.key = KeyA /\ w.html = ret.body
          ELSE /\ EntryOf(KeyA) = hist.entry
               /\ pending = hist.pending

\* A stale Entry of generation 1 has been re-rendered by a GET whose handler
\* answered 200 with other bytes than it held.
C40_Witness ==
    /\ ret.op = "CacheMiddleware"
    /\ hist.entry # NoEntry
    /\ hist.entry.stale
    /\ hist.entry.Generation = 1
    /\ ret.method = "GET" /\ ret.strategy = "incremental"
    /\ ret.status = StatusOK
    /\ GetDecompressedContent(EntryOf(KeyA)) = ret.body
    /\ hist.entry.Content # EntryOf(KeyA).Content
    /\ EntryOf(KeyA).Generation = 2

\* A GET for a stale Entry whose handler answered 500 has left it stale.
C40_WitnessOther ==
    /\ ret.op = "CacheMiddleware"
    /\ ret.canonical # <<>>
    /\ hist.entry # NoEntry
    /\ hist.entry.stale
    /\ ret.method = "GET" /\ ret.strategy = "incremental"
    /\ ret.status = 500
    /\ ret.next
    /\ EntryOf(KeyA).stale
====
